---- MODULE Spec2Model ----
(***************************************************************************)
(* Model of the honeypot agent: the scam scorer (detection.py), the        *)
(* intelligence extractor (extraction.py), the persona selector            *)
(* (persona_manager.py), the reply generator (agent.py), the final         *)
(* callback (callback.py) and the per-message handler with its in-memory   *)
(* session store (main.py).                                                *)
(*                                                                         *)
(* Conventions.  A text is a sequence of one-character strings, so that    *)
(* Python's substring test, str.lower, the regular expressions and         *)
(* difflib's SequenceMatcher are computed and not assumed.  A float with   *)
(* two decimals is the integer number of hundredths (1.0 is 100); the      *)
(* decay of update_confidence is kept in thousandths.  None is the string  *)
(* "None".  A flag "keyword:<w>" is <<"keyword", w>>, "urgency" is         *)
(* <<"urgency">>, "repetition:<s>" is <<"repetition", s>> and              *)
(* "escalation:<t>" is <<"escalation", t>>.                                *)
(***************************************************************************)
EXTENDS Integers, Sequences, FiniteSets, TLC

VARIABLES
    SESSIONS,      \* main.py SESSIONS: session id -> SessionData
    clock,         \* logical value of datetime.utcnow(); one tick per request
    request,       \* the validated payload of the last handled request
    response,      \* the MessageResponse of the last handled request
    detection,     \* the detect_scam result of the last handled request
    exit_decision, \* the should_exit() result of the last handled request
    generation,    \* the generate_reply call of the last handled request
    callbacks,     \* the send_final_callback invocations, in order
    fn_in,         \* argument of the pure function under check (function specs)
    fn_out,        \* its result
    pending,       \* requests dispatched and not yet started, in arrival order
    running,       \* handlers that wait for an external call to return
    log,           \* the handled requests with their verdicts, in order
    request_counts,\* middleware.py RateLimitMiddleware.request_counts
    time,          \* time.time(), in seconds
    http           \* the last request RateLimitMiddleware.dispatch answered

vars == <<SESSIONS, clock, request, response, detection, exit_decision, generation,
          callbacks, fn_in, fn_out, pending, running, log, request_counts, time,
          http>>

None == "None"

----------------------------------------------------------------------------
(* Text primitives                                                         *)

UpperCase == <<"A","B","C","D","E","F","G","H","I","J","K","L","M",
               "N","O","P","Q","R","S","T","U","V","W","X","Y","Z">>
LowerCase == <<"a","b","c","d","e","f","g","h","i","j","k","l","m",
               "n","o","p","q","r","s","t","u","v","w","x","y","z">>
Digits == {"0","1","2","3","4","5","6","7","8","9"}
Letters == {UpperCase[i] : i \in 1..26} \cup {LowerCase[i] : i \in 1..26}
WordChars == Letters \cup Digits \cup {"_"}

\* str.lower() on one character
LowerChar(c) ==
    IF \E i \in 1..26 : UpperCase[i] = c
    THEN LowerCase[CHOOSE i \in 1..26 : UpperCase[i] = c]
    ELSE c

\* str.lower()
Lower(t) == [i \in 1..Len(t) |-> LowerChar(t[i])]

\* Python's `w in t` on strings
Contains(t, w) ==
    \E s \in 0..(Len(t) - Len(w)) : \A k \in 1..Len(w) : t[s + k] = w[k]

\* t[a:b] with 1-based inclusive bounds; empty when a > b
Slice(t, a, b) == [i \in 1..(b - a + 1) |-> t[a + i - 1]]

Max(S) == CHOOSE x \in S : \A y \in S : y <= x
Min(S) == CHOOSE x \in S : \A y \in S : x <= y

----------------------------------------------------------------------------
(* The messages sent in the checked runs                                   *)

M_HI == <<"h","i"," ","t","h","e","r","e">>
M_VERIFY == <<"P","l","e","a","s","e"," ","v","e","r","i","f","y">>
M_OTP == <<"o","t","p"," ","k","y","c">>
M_OTP2 == <<"o","t","p"," ","k","y","c","!">>
M_BLOCK == <<"a","c","c","o","u","n","t"," ","b","l","o","c","k","e","d"," ","n","o","w">>
M_FINAL == <<"f","i","n","a","l"," ","w","a","r","n","i","n","g">>
M_UPI == <<"u","p","i"," ","a","@","y","b","l"," ","n","o","w">>
M_LINK == <<"v","e","r","i","f","y"," ","h","t","t","p",":","/","/","x",".","c","o"," ","n","o","w">>
M_PHONE == <<"o","t","p"," ","t","o"," ","+","9","1"," ","9","8","7","6","5","4","3","2","1","0"," ","a","s","a","p">>
M_LAST == <<"F","i","n","a","l"," ","w","a","r","n","i","n","g",":"," ","a","c","c","o","u","n","t"," ","b","l","o","c","k","e","d"," ","n","o","w">>

M_TODAY == <<"c","o","m","e"," ","t","o","d","a","y">>
M_LEGAL == <<"l","e","g","a","l"," ","a","c","t","i","o","n">>
M_THREAT == <<"a","c","c","o","u","n","t"," ","b","l","o","c","k","e","d">>

Messages ==
    {M_HI, M_VERIFY, M_OTP, M_OTP2, M_BLOCK, M_FINAL, M_LAST, M_UPI, M_LINK, M_PHONE,
     M_TODAY, M_LEGAL, M_THREAT}

----------------------------------------------------------------------------
(* detection.py: vocabularies                                              *)

SCAM_KEYWORDS == <<
    <<"b","l","o","c","k","e","d">>, <<"s","u","s","p","e","n","d","e","d">>,
    <<"v","e","r","i","f","y">>, <<"u","r","g","e","n","t">>,
    <<"i","m","m","e","d","i","a","t","e","l","y">>,
    <<"a","c","c","o","u","n","t">>, <<"u","p","i">>, <<"o","t","p">>,
    <<"k","y","c">>, <<"r","e","f","u","n","d">>, <<"p","r","i","z","e">>,
    <<"f","i","n","a","l">>, <<"w","a","r","n","i","n","g">>,
    <<"e","x","p","i","r","e">>, <<"d","e","a","c","t","i","v","a","t","e">>,
    <<"c","o","n","f","i","r","m">> >>

URGENCY_WORDS == {
    <<"n","o","w">>, <<"t","o","d","a","y">>,
    <<"i","m","m","e","d","i","a","t","e","l","y">>, <<"w","i","t","h","i","n">>,
    <<"a","s","a","p">>, <<"h","u","r","r","y">>, <<"q","u","i","c","k">>,
    <<"f","a","s","t">> }

THREAT_WORDS == {
    <<"b","l","o","c","k","e","d">>, <<"s","u","s","p","e","n","d","e","d">>,
    <<"l","e","g","a","l">>, <<"t","e","r","m","i","n","a","t","e","d">>,
    <<"a","c","t","i","o","n">>, <<"p","e","n","a","l","t","y">>,
    <<"f","i","n","e">> }

ESCALATION_WORDS == {
    <<"f","i","n","a","l">>, <<"l","a","s","t">>,
    <<"u","l","t","i","m","a","t","e">>, <<"w","a","r","n","i","n","g">>,
    <<"c","h","a","n","c","e">> }

----------------------------------------------------------------------------
(* detection.py: calculate_similarity (difflib.SequenceMatcher.ratio)      *)

\* length of the common run of a and b starting at a[i], b[j], inside
\* a[..ahi], b[..bhi]
RECURSIVE CommonRun(_, _, _, _, _, _)
CommonRun(a, b, i, j, ahi, bhi) ==
    IF i > ahi \/ j > bhi \/ a[i] # b[j] THEN 0
    ELSE 1 + CommonRun(a, b, i + 1, j + 1, ahi, bhi)

\* SequenceMatcher.find_longest_match without junk: the longest block, the
\* one starting earliest in a and then earliest in b; <<i, j, size>>
find_longest_match(a, b, alo, ahi, blo, bhi) ==
    LET size == Max({0} \cup {CommonRun(a, b, i, j, ahi, bhi) :
                                 i \in alo..ahi, j \in blo..bhi})
    IN  IF size = 0 THEN <<alo, blo, 0>>
        ELSE LET i == Min({x \in alo..ahi : \E y \in blo..bhi :
                              CommonRun(a, b, x, y, ahi, bhi) = size})
                 j == Min({y \in blo..bhi :
                              CommonRun(a, b, i, y, ahi, bhi) = size})
             IN  <<i, j, size>>

\* sum of the sizes of SequenceMatcher.get_matching_blocks
RECURSIVE matching_size(_, _, _, _, _, _)
matching_size(a, b, alo, ahi, blo, bhi) ==
    IF alo > ahi \/ blo > bhi THEN 0
    ELSE LET m == find_longest_match(a, b, alo, ahi, blo, bhi)
         IN  IF m[3] = 0 THEN 0
             ELSE m[3]
                  + matching_size(a, b, alo, m[1] - 1, blo, m[2] - 1)
                  + matching_size(a, b, m[1] + m[3], ahi, m[2] + m[3], bhi)

\* calculate_similarity as the exact fraction <<2*matches, total length>>;
\* SequenceMatcher.ratio returns 1.0 for two empty texts
calculate_similarity(text1, text2) ==
    LET a == Lower(text1)
        b == Lower(text2)
    IN  IF Len(a) + Len(b) = 0 THEN <<1, 1>>
        ELSE <<2 * matching_size(a, b, 1, Len(a), 1, Len(b)), Len(a) + Len(b)>>

\* round(n/d, 2) in hundredths; an exact half goes to the even neighbour
\* (Python's round on a float that holds the half exactly)
Round2(n, d) ==
    LET q == (100 * n) \div d
        r == (100 * n) % d
    IN  IF 2 * r > d THEN q + 1
        ELSE IF 2 * r < d THEN q
        ELSE IF q % 2 = 0 THEN q ELSE q + 1

----------------------------------------------------------------------------
(* detection.py: detect_repetition, detect_escalation, detect_scam,        *)
(* update_confidence                                                       *)

ScamThreshold == 40      \* settings.scam_confidence_threshold (0.4)
RepetitionThreshold == 70 \* detect_repetition threshold default (0.7)

\* calculate_similarity, computed once for the messages of the checked runs
SimilarityTable ==
    [a \in Messages |-> [b \in Messages |-> calculate_similarity(a, b)]]

Similarity(a, b) ==
    IF a \in Messages /\ b \in Messages THEN SimilarityTable[a][b]
    ELSE calculate_similarity(a, b)

\* message_history[-n:]
LastN(h, n) == IF Len(h) <= n THEN h ELSE Slice(h, Len(h) - n + 1, Len(h))

\* similarity >= threshold, on the exact fraction
SimAtLeast(f, threshold) == 100 * f[1] >= threshold * f[2]

\* the larger of two fractions (max(max_similarity, similarity))
FracMax(f, g) == IF f[1] * g[2] >= g[1] * f[2] THEN f ELSE g

RECURSIVE MaxSimilarity(_, _)
MaxSimilarity(message, recent) ==
    IF recent = <<>> THEN <<0, 1>>
    ELSE FracMax(MaxSimilarity(message, Tail(recent)),
                 Similarity(message, Head(recent)))

\* the number of recent messages at or above the threshold
RepeatedCount(message, recent_messages) ==
    Cardinality({i \in 1..Len(recent_messages) :
        SimAtLeast(Similarity(message, recent_messages[i]), RepetitionThreshold)})

\* the dictionary detect_repetition returns
RepetitionResult(max_similarity, repeated_count) ==
    [is_repetitive |-> SimAtLeast(max_similarity, RepetitionThreshold),
     similarity |-> Round2(max_similarity[1], max_similarity[2]),
     repeated_count |-> repeated_count]

detect_repetition(message, message_history) ==
    IF message_history = <<>>
    THEN [is_repetitive |-> FALSE, similarity |-> 0, repeated_count |-> 0]
    ELSE RepetitionResult(MaxSimilarity(message, LastN(message_history, 5)),
                          RepeatedCount(message, LastN(message_history, 5)))

\* any(word in message_lower for word in ESCALATION_WORDS)
HasEscalationWords(message) ==
    \E word \in ESCALATION_WORDS : Contains(Lower(message), word)

EscalationWordsTable == [m \in Messages |-> HasEscalationWords(m)]

\* the dictionary of a detect_escalation whose two tests are swapped, the
\* counters' type replacing the words'
EscalationResult_pressure_wins(has_escalation_words, behavior_patterns) ==
    LET urgency_count == behavior_patterns.urgency
        threat_count == behavior_patterns.threat
        pressure == urgency_count >= 2 \/ threat_count >= 2
    IN  [is_escalating |-> pressure \/ has_escalation_words,
         escalation_type |-> IF pressure THEN "repeated_pressure"
                             ELSE IF has_escalation_words THEN "final_warning"
                             ELSE None,
         urgency_count |-> urgency_count,
         threat_count |-> threat_count]

\* the dictionary detect_escalation returns
EscalationResult(has_escalation_words, behavior_patterns) ==
    LET urgency_count == behavior_patterns.urgency
        threat_count == behavior_patterns.threat
        pressure == urgency_count >= 2 \/ threat_count >= 2
    IN  [is_escalating |-> pressure \/ has_escalation_words,
         escalation_type |-> IF has_escalation_words THEN "final_warning"
                             ELSE IF pressure THEN "repeated_pressure"
                             ELSE None,
         urgency_count |-> urgency_count,
         threat_count |-> threat_count]

detect_escalation(message, behavior_patterns) ==
    EscalationResult(IF message \in Messages THEN EscalationWordsTable[message]
                     ELSE HasEscalationWords(message),
                     behavior_patterns)

\* the keyword, urgency and threat flags of a message, in the order
\* detect_scam appends them
RECURSIVE KeywordFlags(_, _)
KeywordFlags(message_lower, i) ==
    IF i > Len(SCAM_KEYWORDS) THEN <<>>
    ELSE (IF Contains(message_lower, SCAM_KEYWORDS[i])
          THEN << <<"keyword", SCAM_KEYWORDS[i]>> >> ELSE <<>>)
         \o KeywordFlags(message_lower, i + 1)

LexicalFlags(message) ==
    LET message_lower == Lower(message)
    IN  KeywordFlags(message_lower, 1)
        \o (IF \E word \in URGENCY_WORDS : Contains(message_lower, word)
            THEN << <<"urgency">> >> ELSE <<>>)
        \o (IF \E word \in THREAT_WORDS : Contains(message_lower, word)
            THEN << <<"threat">> >> ELSE <<>>)

\* LexicalFlags, computed once for the messages of the checked runs
LexicalTable == [m \in Messages |-> LexicalFlags(m)]

Lexical(message) ==
    IF message \in Messages THEN LexicalTable[message] ELSE LexicalFlags(message)

\* the dictionary of a detect_scam whose verdict needs confidence > threshold
ScamResult_above_threshold(lexical_flags, repetition_result, escalation_result) ==
    LET flags ==
            lexical_flags
            \o (IF repetition_result.is_repetitive
                THEN << <<"repetition", repetition_result.similarity>> >>
                ELSE <<>>)
            \o (IF escalation_result.is_escalating
                THEN << <<"escalation", escalation_result.escalation_type>> >>
                ELSE <<>>)
        confidence == IF 20 * Len(flags) < 100 THEN 20 * Len(flags) ELSE 100
    IN  [is_scam |-> confidence > ScamThreshold,
         confidence |-> confidence,
         flags |-> flags,
         repetition |-> repetition_result,
         escalation |-> escalation_result]

\* the dictionary detect_scam returns, from the lexical flags and the two
\* behavioural analyses
ScamResult(lexical_flags, repetition_result, escalation_result) ==
    LET flags ==
            lexical_flags
            \o (IF repetition_result.is_repetitive
                THEN << <<"repetition", repetition_result.similarity>> >>
                ELSE <<>>)
            \o (IF escalation_result.is_escalating
                THEN << <<"escalation", escalation_result.escalation_type>> >>
                ELSE <<>>)
        confidence == IF 20 * Len(flags) < 100 THEN 20 * Len(flags) ELSE 100
    IN  [is_scam |-> confidence >= ScamThreshold,
         confidence |-> confidence,
         flags |-> flags,
         repetition |-> repetition_result,
         escalation |-> escalation_result]

detect_scam(message, message_history, behavior_patterns) ==
    ScamResult(Lexical(message),
               detect_repetition(message, message_history),
               detect_escalation(message, behavior_patterns))

HasFlag(flags, f) == \E i \in 1..Len(flags) : flags[i] = f

KeywordCount(flags) == Cardinality({i \in 1..Len(flags) : flags[i][1] = "keyword"})

\* the decay without the tier of two keyword flags
Decay_no_pair_tier(flags, repetition_data, escalation_data) ==
    (IF HasFlag(flags, <<"urgency">>) THEN 100 ELSE 0)
    + (IF KeywordCount(flags) >= 3 THEN 150 ELSE 0)
    + (IF HasFlag(flags, <<"threat">>) THEN 200 ELSE 0)
    + (IF repetition_data.is_repetitive
       THEN repetition_data.similarity
            + (IF repetition_data.repeated_count >= 2 THEN 100 ELSE 0)
       ELSE 0)
    + (IF escalation_data.is_escalating
       THEN (IF escalation_data.escalation_type = "final_warning" THEN 150
             ELSE IF escalation_data.escalation_type = "repeated_pressure" THEN 120
             ELSE 0)
       ELSE 0)

\* the decay with a flat 0.10 for a repetition, whatever its similarity
Decay_flat_repetition(flags, repetition_data, escalation_data) ==
    (IF HasFlag(flags, <<"urgency">>) THEN 100 ELSE 0)
    + (IF KeywordCount(flags) >= 3 THEN 150
       ELSE IF KeywordCount(flags) >= 2 THEN 80 ELSE 0)
    + (IF HasFlag(flags, <<"threat">>) THEN 200 ELSE 0)
    + (IF repetition_data.is_repetitive THEN 100 ELSE 0)
    + (IF escalation_data.is_escalating
       THEN (IF escalation_data.escalation_type = "final_warning" THEN 150
             ELSE IF escalation_data.escalation_type = "repeated_pressure" THEN 120
             ELSE 0)
       ELSE 0)

\* the decay with "keyword_count == 3" for "keyword_count >= 3"
Decay_exactly_three(flags, repetition_data, escalation_data) ==
    (IF HasFlag(flags, <<"urgency">>) THEN 100 ELSE 0)
    + (IF KeywordCount(flags) = 3 THEN 150
       ELSE IF KeywordCount(flags) >= 2 THEN 80 ELSE 0)
    + (IF HasFlag(flags, <<"threat">>) THEN 200 ELSE 0)
    + (IF repetition_data.is_repetitive
       THEN repetition_data.similarity
            + (IF repetition_data.repeated_count >= 2 THEN 100 ELSE 0)
       ELSE 0)
    + (IF escalation_data.is_escalating
       THEN (IF escalation_data.escalation_type = "final_warning" THEN 150
             ELSE IF escalation_data.escalation_type = "repeated_pressure" THEN 120
             ELSE 0)
       ELSE 0)

\* the decay with 0.05 * similarity for a repetition
Decay_half_repetition(flags, repetition_data, escalation_data) ==
    (IF HasFlag(flags, <<"urgency">>) THEN 100 ELSE 0)
    + (IF KeywordCount(flags) >= 3 THEN 150
       ELSE IF KeywordCount(flags) >= 2 THEN 80 ELSE 0)
    + (IF HasFlag(flags, <<"threat">>) THEN 200 ELSE 0)
    + (IF repetition_data.is_repetitive
       THEN repetition_data.similarity \div 2
            + (IF repetition_data.repeated_count >= 2 THEN 100 ELSE 0)
       ELSE 0)
    + (IF escalation_data.is_escalating
       THEN (IF escalation_data.escalation_type = "final_warning" THEN 150
             ELSE IF escalation_data.escalation_type = "repeated_pressure" THEN 120
             ELSE 0)
       ELSE 0)

\* the decay of update_confidence, in thousandths
Decay(flags, repetition_data, escalation_data) ==
    (IF HasFlag(flags, <<"urgency">>) THEN 100 ELSE 0)
    + (IF KeywordCount(flags) >= 3 THEN 150
       ELSE IF KeywordCount(flags) >= 2 THEN 80 ELSE 0)
    + (IF HasFlag(flags, <<"threat">>) THEN 200 ELSE 0)
    + (IF repetition_data.is_repetitive
       THEN repetition_data.similarity
            + (IF repetition_data.repeated_count >= 2 THEN 100 ELSE 0)
       ELSE 0)
    + (IF escalation_data.is_escalating
       THEN (IF escalation_data.escalation_type = "final_warning" THEN 150
             ELSE IF escalation_data.escalation_type = "repeated_pressure" THEN 120
             ELSE 0)
       ELSE 0)

\* whether old_confidence - decay lies exactly halfway between two hundredths
IsHalf(old_confidence, decay) ==
    10 * old_confidence - decay > 0 /\ (10 * old_confidence - decay) % 10 = 5

\* update_confidence with the decay added instead of subtracted
update_confidence_adds(old_confidence, flags, repetition_data, escalation_data, half_up) ==
    LET decay == Decay(flags, repetition_data, escalation_data)
        sum == 10 * old_confidence + decay
    IN  IF sum % 10 > 5 \/ (sum % 10 = 5 /\ half_up)
        THEN sum \div 10 + 1
        ELSE sum \div 10

\* update_confidence.  The difference is a binary float; when it stands for an
\* exact half of a hundredth, round(, 2) goes up or down with the float's
\* representation error: half_up is that outcome.
update_confidence(old_confidence, flags, repetition_data, escalation_data, half_up) ==
    LET decay == Decay(flags, repetition_data, escalation_data)
        diff == IF 10 * old_confidence - decay > 0
                THEN 10 * old_confidence - decay ELSE 0
    IN  IF diff % 10 > 5 \/ (diff % 10 = 5 /\ half_up)
        THEN diff \div 10 + 1
        ELSE diff \div 10

----------------------------------------------------------------------------
(* extraction.py                                                           *)

UPI_PROVIDERS == {
    <<"p","a","y","t","m">>, <<"p","h","o","n","e","p","e">>,
    <<"g","o","o","g","l","e","p","a","y">>, <<"y","b","l">>,
    <<"o","k","s","b","i">>, <<"o","k","h","d","f","c","b","a","n","k">>,
    <<"o","k","i","c","i","c","i">>, <<"o","k","a","x","i","s">>,
    <<"i","b","l">>, <<"a","x","l">>, <<"u","p","i">> }

WhiteSpace == {" ", "\t", "\n", "\r", "\f"}

IsWordAt(t, i) == i >= 1 /\ i <= Len(t) /\ t[i] \in WordChars

\* the regular expression \b before position s
Boundary(t, s) == IsWordAt(t, s - 1) # IsWordAt(t, s)

\* last position of the longest run of characters of class C starting at s
\* (s - 1 when t[s] is not in C): a greedy C*
RECURSIVE RunEnd(_, _, _)
RunEnd(t, s, C) ==
    IF s <= Len(t) /\ t[s] \in C THEN RunEnd(t, s + 1, C) ELSE s - 1

\* t[s:] starts with w, ignoring case
StartsWithAt(t, s, w) ==
    s + Len(w) - 1 <= Len(t)
    /\ \A k \in 1..Len(w) : LowerChar(t[s + k - 1]) = w[k]

\* re.findall: the matches left to right, without overlap; match_end[s] is the
\* last position of the match starting at s, 0 when there is none
RECURSIVE FindAll(_, _, _)
FindAll(t, match_end, pos) ==
    IF pos > Len(t) THEN <<>>
    ELSE IF match_end[pos] >= pos
         THEN <<Slice(t, pos, match_end[pos])>>
              \o FindAll(t, match_end, match_end[pos] + 1)
         ELSE FindAll(t, match_end, pos + 1)

\* UPI_PATTERN \b[\w\.\-]+@[\w]+\b at position s
UPI_PATTERN(t, s) ==
    LET at == RunEnd(t, s, WordChars \cup {".", "-"}) + 1
        end == RunEnd(t, at + 1, WordChars)
    IN  IF Boundary(t, s) /\ at > s /\ at <= Len(t) /\ t[at] = "@" /\ end > at
        THEN end ELSE 0

\* match.split('@')[1]
AfterAt(match) ==
    LET at == Min({i \in 1..Len(match) : match[i] = "@"})
    IN  Slice(match, at + 1, Len(match))

extract_upi_ids(text) ==
    LET matches == FindAll(text, [s \in 1..Len(text) |-> UPI_PATTERN(text, s)], 1)
    IN  {matches[i] : i \in {k \in 1..Len(matches) :
            LET provider == Lower(AfterAt(matches[k]))
            IN  (\E p \in UPI_PROVIDERS : Contains(provider, p))
                \/ Contains(provider, <<"b","a","n","k">>)}}

\* [6-9]\d{9}\b at position q
PhoneDigits(t, q) ==
    IF q + 9 <= Len(t) /\ t[q] \in {"6", "7", "8", "9"}
       /\ (\A k \in 1..9 : t[q + k] \in Digits) /\ ~IsWordAt(t, q + 10)
    THEN q + 9 ELSE 0

\* [\s\-]?[6-9]\d{9}\b at position q, the separator tried first
PhoneTail(t, q) ==
    IF q <= Len(t) /\ t[q] \in WhiteSpace \cup {"-"} /\ PhoneDigits(t, q + 1) # 0
    THEN PhoneDigits(t, q + 1)
    ELSE PhoneDigits(t, q)

\* PHONE_PATTERN \b(?:\+91|91)?[\s\-]?[6-9]\d{9}\b at position s
PHONE_PATTERN(t, s) ==
    IF ~Boundary(t, s) THEN 0
    ELSE IF StartsWithAt(t, s, <<"+","9","1">>) /\ PhoneTail(t, s + 3) # 0
         THEN PhoneTail(t, s + 3)
    ELSE IF StartsWithAt(t, s, <<"9","1">>) /\ PhoneTail(t, s + 2) # 0
         THEN PhoneTail(t, s + 2)
    ELSE PhoneTail(t, s)

\* re.sub(r'[\s\-]', '', match)
RECURSIVE StripSeparators(_)
StripSeparators(t) ==
    IF t = <<>> THEN <<>>
    ELSE (IF Head(t) \in WhiteSpace \cup {"-"} THEN <<>> ELSE <<Head(t)>>)
         \o StripSeparators(Tail(t))

\* the normalisation of one match in extract_phone_numbers
NormalizePhone(match) ==
    LET clean == StripSeparators(match)
    IN  IF StartsWithAt(clean, 1, <<"+","9","1">>) THEN Slice(clean, 4, Len(clean))
        ELSE IF StartsWithAt(clean, 1, <<"9","1">>) /\ Len(clean) = 12
             THEN Slice(clean, 3, Len(clean))
        ELSE clean

extract_phone_numbers(text) ==
    LET matches == FindAll(text, [s \in 1..Len(text) |-> PHONE_PATTERN(text, s)], 1)
    IN  {NormalizePhone(matches[i]) : i \in {k \in 1..Len(matches) :
            Len(NormalizePhone(matches[k])) = 10}}

\* [\w\-\.]+(?:\.[a-z]{2,})+(?:/[\w\-\./?%&=]*)? at position h: the host run is
\* given back up to its last dot that is followed by two letters
UrlHost(t, h) ==
    LET run == RunEnd(t, h, WordChars \cup {"-", "."})
        dots == {a \in h..(run - 3) :
                    t[a + 1] = "." /\ t[a + 2] \in Letters /\ t[a + 3] \in Letters}
    IN  IF dots = {} THEN 0
        ELSE LET tld == RunEnd(t, Max(dots) + 2, Letters)
             IN  IF tld < Len(t) /\ t[tld + 1] = "/"
                 THEN RunEnd(t, tld + 2,
                             WordChars \cup {"-", ".", "/", "?", "%", "&", "="})
                 ELSE tld

\* URL_PATTERN https?://(?:www\.)?... at position s
URL_PATTERN(t, s) ==
    LET q == IF StartsWithAt(t, s, <<"h","t","t","p","s",":","/","/">>) THEN s + 8
             ELSE IF StartsWithAt(t, s, <<"h","t","t","p",":","/","/">>) THEN s + 7
             ELSE 0
    IN  IF q = 0 THEN 0
        ELSE IF StartsWithAt(t, q, <<"w","w","w",".">>) /\ UrlHost(t, q + 4) # 0
             THEN UrlHost(t, q + 4)
        ELSE UrlHost(t, q)

extract_urls(text) ==
    LET matches == FindAll(text, [s \in 1..Len(text) |-> URL_PATTERN(text, s)], 1)
    IN  {matches[i] : i \in 1..Len(matches)}

extract_suspicious_keywords(text, detected_flags) ==
    {detected_flags[i][2] : i \in {k \in 1..Len(detected_flags) :
                                      detected_flags[k][1] = "keyword"}}

\* the three regular-expression extractions of a text
Entities(text) ==
    [upiIds |-> extract_upi_ids(text),
     phoneNumbers |-> extract_phone_numbers(text),
     phishingLinks |-> extract_urls(text)]

\* Entities, computed once for the messages of the checked runs
EntityTable == [m \in Messages |-> Entities(m)]

\* the dictionary extract_all_intelligence returns
Intelligence(found, suspicious_keywords) ==
    [upiIds |-> found.upiIds,
     phoneNumbers |-> found.phoneNumbers,
     phishingLinks |-> found.phishingLinks,
     suspiciousKeywords |-> suspicious_keywords]

extract_all_intelligence(text, detection_flags) ==
    Intelligence(IF text \in Messages THEN EntityTable[text] ELSE Entities(text),
                 extract_suspicious_keywords(text, detection_flags))

\* the elements of a list
ToSet(list) == {list[i] : i \in 1..Len(list)}

\* list(set(...)): the lists that hold each element of S once; the order is
\* the iteration order of a set of strings, which the hash seed decides
ListsOf(S) ==
    {s \in [1..Cardinality(S) -> S] :
        \A i, j \in 1..Cardinality(S) : i # j => s[i] # s[j]}

\* the merge of one key without set(): the two lists one after the other
MergedKey_concatenates(existing, new) == {existing \o new}

\* the lists merge_intelligence can store under one key:
\* list(set(existing.get(key, []) + new.get(key, [])))
MergedKey(existing, new) == ListsOf(ToSet(existing \o new))

\* the dictionaries merge_intelligence can return for two dictionaries of
\* lists
MergedLists(existing, new) ==
    [upiIds : MergedKey(existing.upiIds, new.upiIds),
     phoneNumbers : MergedKey(existing.phoneNumbers, new.phoneNumbers),
     phishingLinks : MergedKey(existing.phishingLinks, new.phishingLinks),
     suspiciousKeywords : MergedKey(existing.suspiciousKeywords,
                                    new.suspiciousKeywords)]

\* a dictionary of lists read as sets of strings
SetsOf(intelligence) ==
    [upiIds |-> ToSet(intelligence.upiIds),
     phoneNumbers |-> ToSet(intelligence.phoneNumbers),
     phishingLinks |-> ToSet(intelligence.phishingLinks),
     suspiciousKeywords |-> ToSet(intelligence.suspiciousKeywords)]

\* merge_intelligence keeping only the new suspiciousKeywords
merge_intelligence_latest_keywords(existing, new) ==
    [upiIds |-> existing.upiIds \cup new.upiIds,
     phoneNumbers |-> existing.phoneNumbers \cup new.phoneNumbers,
     phishingLinks |-> existing.phishingLinks \cup new.phishingLinks,
     suspiciousKeywords |-> new.suspiciousKeywords]

\* merge_intelligence: list(set(existing + new)) per key
merge_intelligence(existing, new) ==
    [upiIds |-> existing.upiIds \cup new.upiIds,
     phoneNumbers |-> existing.phoneNumbers \cup new.phoneNumbers,
     phishingLinks |-> existing.phishingLinks \cup new.phishingLinks,
     suspiciousKeywords |-> existing.suspiciousKeywords \cup new.suspiciousKeywords]

----------------------------------------------------------------------------
(* persona_manager.py                                                      *)

\* PERSONAS in declaration order: <<type, min_confidence, max_confidence>>
PERSONAS == <<
    <<"confused_user", 70, 100>>,
    <<"nervous_elder", 50, 70>>,
    <<"over_polite", 30, 50>>,
    <<"tech_savvy", 0, 30>> >>

PersonaTypes == {PERSONAS[i][1] : i \in 1..Len(PERSONAS)}

\* the range test with the upper end left out
MatchingPersonas_half_open(confidence) ==
    {i \in 1..Len(PERSONAS) :
        PERSONAS[i][2] <= confidence /\ confidence < PERSONAS[i][3]}

\* the personas whose range holds the confidence:
\* persona.min_confidence <= confidence <= persona.max_confidence
MatchingPersonas(confidence) ==
    {i \in 1..Len(PERSONAS) :
        PERSONAS[i][2] <= confidence /\ confidence <= PERSONAS[i][3]}

\* PersonaManager.select_persona: the first persona, in declaration order,
\* whose range holds the confidence; confused_user when there is none
select_persona(confidence, current_persona) ==
    IF MatchingPersonas(confidence) # {}
    THEN PERSONAS[Min(MatchingPersonas(confidence))][1]
    ELSE "confused_user"

\* PersonaManager.get_persona_by_type: None for an unknown type
get_persona_by_type(persona_type) ==
    IF persona_type \in PersonaTypes THEN persona_type ELSE None

\* PersonaManager.get_exit_message: messages[0] of the persona's list
get_exit_message(persona, extracted_intelligence) ==
    CASE persona = "confused_user" ->
           "I'm getting too confused. I'll visit the branch directly to sort this out."
      [] persona = "nervous_elder" ->
           "I'm feeling very nervous about this. I'll ask my son to help me at the bank."
      [] persona = "over_polite" ->
           "Thank you so much for your help, but I think I'll visit the branch to be safe. Sorry for the trouble!"
      [] persona = "tech_savvy" ->
           "I'll verify this through the official website and contact support directly. Thanks."
      [] OTHER ->
           "I'm getting too confused. I'll visit the branch directly to sort this out."

----------------------------------------------------------------------------
(* agent.py                                                                *)

\* decide_mode clamping a confidence outside [0,1] instead of raising
decide_mode_clamps(confidence) ==
    IF confidence < 25 THEN "EXIT"
    ELSE IF confidence < 50 THEN "DEFLECTION"
    ELSE "NORMAL"

\* decide_mode with the bounds of EXIT and DEFLECTION exchanged
decide_mode_exit_below_half(confidence) ==
    IF ~(0 <= confidence /\ confidence <= 100) THEN "ValueError"
    ELSE IF confidence < 50 THEN "EXIT"
    ELSE IF confidence < 25 THEN "DEFLECTION"
    ELSE "NORMAL"

\* decide_mode; "ValueError" stands for the raised exception
decide_mode(confidence) ==
    IF ~(0 <= confidence /\ confidence <= 100) THEN "ValueError"
    ELSE IF confidence < 25 THEN "EXIT"
    ELSE IF confidence < 50 THEN "DEFLECTION"
    ELSE "NORMAL"

Topic(message) ==
    LET msg == Lower(message)
    IN  IF Contains(msg, <<"f","e","e">>) \/ Contains(msg, <<"p","a","y","m","e","n","t">>)
        THEN "PAYMENT"
        ELSE IF Contains(msg, <<"o","t","p">>) THEN "OTP"
        ELSE IF Contains(msg, <<"l","i","n","k">>) \/ Contains(msg, <<"c","l","i","c","k">>)
        THEN "LINK"
        ELSE IF Contains(msg, <<"b","a","n","k">>) \/ Contains(msg, <<"u","p","i">>)
        THEN "BANK"
        ELSE "GENERAL"

\* Topic, computed once for the messages of the checked runs
TopicTable == [m \in Messages |-> Topic(m)]

detect_topic(message) ==
    IF message \in Messages THEN TopicTable[message] ELSE Topic(message)

\* What one model.generate_content attempt does: "ok" returns a text,
\* "transient" raises an error whose text names quota, connection or remote,
\* "fatal" raises any other error.
LlmOutcomes == {"ok", "transient", "fatal"}

LLM_REPLY == "<text generated by the model>"
LLM_ERROR_REPLY == "I'm having trouble understanding. Can you repeat that?"
LLM_BUSY_REPLY == "System busy, please try later."

\* call_llm giving up on a fatal error without a fallback text
RECURSIVE call_llm_from_no_fallback(_, _, _)
call_llm_from_no_fallback(outcomes, attempt, waits) ==
    IF attempt >= 3
    THEN [reply |-> LLM_BUSY_REPLY, failed |-> TRUE, attempts |-> attempt,
          waits |-> waits]
    ELSE IF outcomes[attempt + 1] = "ok"
    THEN [reply |-> LLM_REPLY, failed |-> FALSE, attempts |-> attempt + 1,
          waits |-> waits]
    ELSE IF outcomes[attempt + 1] = "transient"
    THEN call_llm_from_no_fallback(outcomes, attempt + 1,
                                   Append(waits, 2 * (attempt + 1)))
    ELSE [reply |-> None, failed |-> TRUE, attempts |-> attempt + 1,
          waits |-> waits]

\* call_llm retrying after every error, whatever its text
RECURSIVE call_llm_from_retries_every_error(_, _, _)
call_llm_from_retries_every_error(outcomes, attempt, waits) ==
    IF attempt >= 3
    THEN [reply |-> LLM_BUSY_REPLY, failed |-> TRUE, attempts |-> attempt,
          waits |-> waits]
    ELSE IF outcomes[attempt + 1] = "ok"
    THEN [reply |-> LLM_REPLY, failed |-> FALSE, attempts |-> attempt + 1,
          waits |-> waits]
    ELSE call_llm_from_retries_every_error(outcomes, attempt + 1,
                                           Append(waits, 2 * (attempt + 1)))

\* call_llm from attempt number `attempt` (0-based) on; outcomes[k] is the
\* outcome of attempt k - 1; waits are the time.sleep arguments so far
RECURSIVE call_llm_from(_, _, _)
call_llm_from(outcomes, attempt, waits) ==
    IF attempt >= 3
    THEN [reply |-> LLM_BUSY_REPLY, failed |-> TRUE, attempts |-> attempt,
          waits |-> waits]
    ELSE IF outcomes[attempt + 1] = "ok"
    THEN [reply |-> LLM_REPLY, failed |-> FALSE, attempts |-> attempt + 1,
          waits |-> waits]
    ELSE IF outcomes[attempt + 1] = "transient"
    THEN call_llm_from(outcomes, attempt + 1, Append(waits, 2 * (attempt + 1)))
    ELSE [reply |-> LLM_ERROR_REPLY, failed |-> TRUE, attempts |-> attempt + 1,
          waits |-> waits]

call_llm(outcomes) == call_llm_from(outcomes, 0, <<>>)

\* str(e) of the errors that model.generate_content raises in the checked
\* calls: a rate limit, two connection drops, a rejected request
ERR_QUOTA == <<"4","2","9"," ","Q","u","o","t","a"," ","e","x","c","e","e","d","e","d">>
ERR_CONNECTION == <<"C","o","n","n","e","c","t","i","o","n"," ","a","b","o","r","t","e","d">>
ERR_REMOTE == <<"R","e","m","o","t","e","D","i","s","c","o","n","n","e","c","t","e","d">>
ERR_OTHER == <<"4","0","0"," ","A","P","I"," ","k","e","y"," ","n","o","t"," ","v","a","l","i","d">>

\* what one attempt does: <<"ok">> when it returns, <<"error", str(e)>> when
\* it raises
LlmAttempts ==
    {<<"ok">>} \cup {<<"error", e>> : e \in {ERR_QUOTA, ERR_CONNECTION, ERR_REMOTE, ERR_OTHER}}

\* the test of the except clause on error_str = str(e).lower()
IsRetryable(error) ==
    \/ Contains(Lower(error), <<"q","u","o","t","a">>)
    \/ Contains(Lower(error), <<"c","o","n","n","e","c","t","i","o","n">>)
    \/ Contains(Lower(error), <<"r","e","m","o","t","e">>)

\* the branch of call_llm that an attempt takes
AttemptOutcome(attempt) ==
    IF attempt[1] = "ok" THEN "ok"
    ELSE IF IsRetryable(attempt[2]) THEN "transient"
    ELSE "fatal"

\* generate_reply: [raised, reply, persona, mode, topic, llm]; raised when
\* decide_mode raises, before the model is called
generate_reply(confidence, last_message, current_persona, outcomes) ==
    LET persona == select_persona(confidence, current_persona)
        topic == detect_topic(last_message)
        mode == decide_mode(confidence)
    IN  IF mode = "ValueError"
        THEN [raised |-> TRUE, reply |-> None, persona |-> persona,
              mode |-> mode, topic |-> topic,
              llm |-> [reply |-> None, failed |-> FALSE, attempts |-> 0,
                       waits |-> <<>>]]
        ELSE [raised |-> FALSE, reply |-> call_llm(outcomes).reply,
              persona |-> persona, mode |-> mode, topic |-> topic,
              llm |-> call_llm(outcomes)]

EXIT_FALLBACK == "I will visit the bank branch directly. Thank you."

\* generate_exit_message; "if current_persona:" is false for None and for
\* the empty string
generate_exit_message(current_persona, extracted_intelligence) ==
    LET persona == IF current_persona # None /\ current_persona # ""
                   THEN get_persona_by_type(current_persona)
                   ELSE select_persona(20, None)
    IN  IF persona = None THEN EXIT_FALLBACK
        ELSE get_exit_message(persona, extracted_intelligence)

----------------------------------------------------------------------------
(* callback.py                                                             *)

CallbackRetryAttempts == 3   \* settings.callback_retry_attempts

\* What one requests.post attempt does: "ok", or "fail" for a timeout, a
\* request error, an HTTP error status or any other exception.
CallbackOutcomes == {"ok", "fail"}

\* the retry loop sleeping after every failed attempt, the last included
RECURSIVE callback_from_sleeps_always(_, _, _, _)
callback_from_sleeps_always(outcomes, max_retries, attempt, waits) ==
    IF attempt >= max_retries
    THEN [result |-> FALSE, attempts |-> attempt, waits |-> waits]
    ELSE IF outcomes[attempt + 1] = "ok"
    THEN [result |-> TRUE, attempts |-> attempt + 1, waits |-> waits]
    ELSE callback_from_sleeps_always(outcomes, max_retries, attempt + 1,
                                     Append(waits, 2 ^ attempt))

\* the loop of send_final_callback from attempt number `attempt` (0-based)
\* on; waits are the time.sleep arguments so far
RECURSIVE callback_from(_, _, _, _)
callback_from(outcomes, max_retries, attempt, waits) ==
    IF attempt >= max_retries
    THEN [result |-> FALSE, attempts |-> attempt, waits |-> waits]
    ELSE IF outcomes[attempt + 1] = "ok"
    THEN [result |-> TRUE, attempts |-> attempt + 1, waits |-> waits]
    ELSE callback_from(outcomes, max_retries, attempt + 1,
                       IF attempt < max_retries - 1
                       THEN Append(waits, 2 ^ attempt) ELSE waits)

\* send_final_callback: the payload posted, what each requests.post would do
\* (script) and how the attempts went
send_final_callback(session_id, session, outcomes) ==
    [payload |-> [sessionId |-> session_id,
                  scamDetected |-> TRUE,
                  totalMessagesExchanged |-> session.turns,
                  extractedIntelligence |-> session.extracted,
                  finalConfidence |-> session.confidence],
     script |-> outcomes,
     outcome |-> callback_from(outcomes, CallbackRetryAttempts, 0, <<>>)]

----------------------------------------------------------------------------
(* main.py: handle_message                                                 *)

ExitThreshold == 40      \* settings.exit_confidence_threshold (0.4)
HistoryLimit == 10       \* "keep last 10"
MinIntelTurns == 3       \* should_exit condition 2
MaxTurns == 15           \* should_exit condition 3

GENERATION_ERROR_REPLY == "I'm not sure I understand. Can you explain more?"

\* a session constructed with the default persona already selected
NewSession_default_persona(now) ==
    [confidence |-> 100,
     turns |-> 0,
     completed |-> FALSE,
     extracted |-> [upiIds |-> {}, phoneNumbers |-> {}, phishingLinks |-> {},
                    suspiciousKeywords |-> {}],
     created_at |-> now,
     last_activity |-> now,
     current_persona |-> "confused_user",
     persona_history |-> <<>>,
     behavior_patterns |-> [urgency |-> 0, threat |-> 0],
     message_history |-> <<>>]

\* SessionData(confidence=1.0, turns=0, completed=False, ...)
NewSession(now) ==
    [confidence |-> 100,
     turns |-> 0,
     completed |-> FALSE,
     extracted |-> [upiIds |-> {}, phoneNumbers |-> {}, phishingLinks |-> {},
                    suspiciousKeywords |-> {}],
     created_at |-> now,
     last_activity |-> now,
     current_persona |-> None,
     persona_history |-> <<>>,
     behavior_patterns |-> [urgency |-> 0, threat |-> 0],
     message_history |-> <<>>]

\* the lookup starting a completed session afresh
LoadSession_restarts_completed(sessions, session_id, now) ==
    IF session_id \notin DOMAIN sessions \/ sessions[session_id].completed
    THEN [id \in DOMAIN sessions \cup {session_id} |->
             IF id = session_id THEN NewSession(now) ELSE sessions[id]]
    ELSE sessions

\* the lookup without its "not in SESSIONS" test: every message starts a
\* new session
LoadSession_always_new(sessions, session_id, now) ==
    [id \in DOMAIN sessions \cup {session_id} |->
        IF id = session_id THEN NewSession(now) ELSE sessions[id]]

\* "Create or load session": the store after the lookup
LoadSession(sessions, session_id, now) ==
    IF session_id \notin DOMAIN sessions
    THEN [id \in DOMAIN sessions \cup {session_id} |->
             IF id = session_id THEN NewSession(now) ELSE sessions[id]]
    ELSE sessions

\* SessionData.update_activity
update_activity(session, now) == [session EXCEPT !.last_activity = now]

\* the append cut to the first 10 ([:10] for [-10:])
AppendHistory_keeps_first(message_history, message_text) ==
    IF Len(message_history) < HistoryLimit
    THEN Append(message_history, message_text)
    ELSE message_history

\* message_history.append(message_text), cut to the last 10
AppendHistory(message_history, message_text) ==
    LastN(Append(message_history, message_text), HistoryLimit)

\* the whole history, the current message included
PriorHistory_whole(message_history) == message_history

\* message_history[:-1], the history handed to detect_scam
PriorHistory(message_history) ==
    SubSeq(message_history, 1, Len(message_history) - 1)

\* the pass-through response of a handler that keeps reporting a session as
\* engaged once it has engaged
PassThroughResponse_once_engaged(session_id, session) ==
    [status |-> "success", reply |-> None, confidence |-> 100,
     session_id |-> session_id, turns |-> session.turns,
     agent_engaged |-> session.turns > 0, scam_detected |-> FALSE]

\* the pass-through response reporting the stored confidence
PassThroughResponse_stored(session_id, session) ==
    [status |-> "success", reply |-> None, confidence |-> session.confidence,
     session_id |-> session_id, turns |-> session.turns,
     agent_engaged |-> FALSE, scam_detected |-> FALSE]

\* the pass-through MessageResponse
PassThroughResponse(session_id, session) ==
    [status |-> "success", reply |-> None, confidence |-> 100,
     session_id |-> session_id, turns |-> session.turns,
     agent_engaged |-> FALSE, scam_detected |-> FALSE]

\* the MessageResponse of an engaged turn
EngagedResponse(session_id, session, reply) ==
    [status |-> "success", reply |-> reply, confidence |-> session.confidence,
     session_id |-> session_id, turns |-> session.turns,
     agent_engaged |-> TRUE, scam_detected |-> TRUE]

\* the update counting every scam-flagged turn as an urgency turn
UpdateBehaviorPatterns_every_turn(behavior_patterns, flags) ==
    [urgency |-> behavior_patterns.urgency + 1,
     threat |-> behavior_patterns.threat
                + (IF HasFlag(flags, <<"threat">>) THEN 1 ELSE 0)]

\* "Update behavior patterns"
UpdateBehaviorPatterns(behavior_patterns, flags) ==
    [urgency |-> behavior_patterns.urgency
                 + (IF HasFlag(flags, <<"urgency">>) THEN 1 ELSE 0),
     threat |-> behavior_patterns.threat
                + (IF HasFlag(flags, <<"threat">>) THEN 1 ELSE 0)]

\* the scam branch leaving a completed session as it is
ScamUpdate_skips_completed(session, det, message_text, half_up) ==
    IF session.completed THEN session
    ELSE [session EXCEPT
            !.behavior_patterns = UpdateBehaviorPatterns(@, det.flags),
            !.confidence = update_confidence(@, det.flags, det.repetition,
                                             det.escalation, half_up),
            !.extracted = merge_intelligence(@,
                              extract_all_intelligence(message_text, det.flags)),
            !.turns = @ + 1]

\* the scam branch counting no turn once the session is completed
ScamUpdate_frozen_turns(session, det, message_text, half_up) ==
    [session EXCEPT
        !.behavior_patterns = UpdateBehaviorPatterns(@, det.flags),
        !.confidence = update_confidence(@, det.flags, det.repetition,
                                         det.escalation, half_up),
        !.extracted = merge_intelligence(@,
                          extract_all_intelligence(message_text, det.flags)),
        !.turns = IF session.completed THEN @ ELSE @ + 1]

\* the session after the scam branch's updates: behaviour patterns,
\* confidence, extracted intelligence, turns
ScamUpdate(session, det, message_text, half_up) ==
    [session EXCEPT
        !.behavior_patterns = UpdateBehaviorPatterns(@, det.flags),
        !.confidence = update_confidence(@, det.flags, det.repetition,
                                         det.escalation, half_up),
        !.extracted = merge_intelligence(@,
                          extract_all_intelligence(message_text, det.flags)),
        !.turns = @ + 1]

\* should_exit with the first condition as confidence < threshold
should_exit_below_threshold(session) ==
    LET has_critical_intel ==
            \/ Cardinality(session.extracted.upiIds) > 0
            \/ Cardinality(session.extracted.phoneNumbers) > 0
            \/ Cardinality(session.extracted.phishingLinks) > 0
    IN  IF session.confidence < ExitThreshold
        THEN [exit_needed |-> TRUE, exit_reason |-> "confidence_threshold"]
        ELSE IF has_critical_intel /\ session.turns >= MinIntelTurns
        THEN [exit_needed |-> TRUE, exit_reason |-> "intelligence_collected"]
        ELSE IF session.turns >= MaxTurns
        THEN [exit_needed |-> TRUE, exit_reason |-> "max_turns_reached"]
        ELSE [exit_needed |-> FALSE, exit_reason |-> None]

\* should_exit with the intelligence condition tested first
should_exit_intel_first(session) ==
    LET has_critical_intel ==
            \/ Cardinality(session.extracted.upiIds) > 0
            \/ Cardinality(session.extracted.phoneNumbers) > 0
            \/ Cardinality(session.extracted.phishingLinks) > 0
    IN  IF has_critical_intel /\ session.turns >= MinIntelTurns
        THEN [exit_needed |-> TRUE, exit_reason |-> "intelligence_collected"]
        ELSE IF session.confidence <= ExitThreshold
        THEN [exit_needed |-> TRUE, exit_reason |-> "confidence_threshold"]
        ELSE IF session.turns >= MaxTurns
        THEN [exit_needed |-> TRUE, exit_reason |-> "max_turns_reached"]
        ELSE [exit_needed |-> FALSE, exit_reason |-> None]

\* should_exit()
should_exit(session) ==
    LET has_critical_intel ==
            \/ Cardinality(session.extracted.upiIds) > 0
            \/ Cardinality(session.extracted.phoneNumbers) > 0
            \/ Cardinality(session.extracted.phishingLinks) > 0
    IN  IF session.confidence <= ExitThreshold
        THEN [exit_needed |-> TRUE, exit_reason |-> "confidence_threshold"]
        ELSE IF has_critical_intel /\ session.turns >= MinIntelTurns
        THEN [exit_needed |-> TRUE, exit_reason |-> "intelligence_collected"]
        ELSE IF session.turns >= MaxTurns
        THEN [exit_needed |-> TRUE, exit_reason |-> "max_turns_reached"]
        ELSE [exit_needed |-> FALSE, exit_reason |-> None]

\* the exit test without "and not session.completed"
ExitBranch_ignores_completed(exit, session) == exit.exit_needed

\* "if exit_needed and not session.completed"
ExitBranch(exit, session) == exit.exit_needed /\ ~session.completed

\* the exit branch: the session after session.completed = True
CompleteSession(session) == [session EXCEPT !.completed = TRUE]

\* the tracking without the assignment to session.current_persona
TrackPersona_keeps_current(session, new_persona) ==
    IF new_persona # session.current_persona
    THEN [session EXCEPT
            !.persona_history = Append(@, [from |-> session.current_persona,
                                           to |-> new_persona,
                                           turn |-> session.turns,
                                           confidence |-> session.confidence])]
    ELSE session

\* "Track persona changes"
TrackPersona(session, new_persona) ==
    IF new_persona # session.current_persona
    THEN [session EXCEPT
            !.persona_history = Append(@, [from |-> session.current_persona,
                                           to |-> new_persona,
                                           turn |-> session.turns,
                                           confidence |-> session.confidence]),
            !.current_persona = new_persona]
    ELSE session

NoGeneration == [called |-> FALSE, raised |-> FALSE, failed |-> FALSE, reply |-> None,
                 persona |-> None, mode |-> None, topic |-> None]

NoRequest == [sessionId |-> None, text |-> <<>>]

NoResponse == [status |-> "none", reply |-> None, confidence |-> 100,
               session_id |-> None, turns |-> 0,
               agent_engaged |-> FALSE, scam_detected |-> FALSE]

NoDetection ==
    [is_scam |-> FALSE, confidence |-> 0, flags |-> <<>>,
     repetition |-> [is_repetitive |-> FALSE, similarity |-> 0, repeated_count |-> 0],
     escalation |-> [is_escalating |-> FALSE, escalation_type |-> None,
                     urgency_count |-> 0, threat_count |-> 0]]

NoExitDecision == [evaluated |-> FALSE, exit_needed |-> FALSE, exit_reason |-> None]

\* The scripts of attempt outcomes that differ in what call_llm does: every
\* attempt before the last one of the script fails with a transient error.
LlmScripts ==
    {o \in [1..3 -> LlmOutcomes] :
        \A k \in 1..2 : o[k] # "transient" => o[k + 1] = "ok"}

\* The same for send_final_callback.
CallbackScripts ==
    {o \in [1..CallbackRetryAttempts -> CallbackOutcomes] :
        \A k \in 1..(CallbackRetryAttempts - 1) : o[k] = "ok" => o[k + 1] = "ok"}

\* The session after the history append, and what detect_scam says.
Arrived(sessions, session_id, message_text, now) ==
    LET loaded == LoadSession(sessions, session_id, now)[session_id]
        active == update_activity(loaded, now)
    IN  [active EXCEPT !.message_history = AppendHistory(@, message_text)]

\* detect_scam handed the counters with the current message's own urgency
\* and threat already counted
Detect_counts_current(session, message_text) ==
    detect_scam(message_text, PriorHistory(session.message_history),
                UpdateBehaviorPatterns(session.behavior_patterns,
                                       Lexical(message_text)))

Detect(session, message_text) ==
    detect_scam(message_text, PriorHistory(session.message_history),
                session.behavior_patterns)

\* the verdict test passing through only a message that raised no flag
PassThrough_no_flag(det) == det.flags = <<>>

\* the verdict test: "if not detection['is_scam']" returns the pass-through
PassThrough(det) == ~det.is_scam

\* SESSIONS with the session of session_id replaced: the handler mutates
\* the SessionData object that SESSIONS[session_id] holds
Store(sessions, session_id, new) ==
    [id \in DOMAIN sessions \cup {session_id} |->
        IF id = session_id THEN new ELSE sessions[id]]

\* should_exit() called before the turn's updates
ExitPolicyView_before_update(session, updated) == session

\* the session should_exit() reads: the closure is called after the
\* confidence update, the extraction merge and the turn increment
ExitPolicyView(session, updated) == updated

\* the pass-through return of a handler that counts the turn before it
\* tests the verdict
PassThroughTail_counts_turn(session_id, session) ==
    /\ SESSIONS' = Store(SESSIONS, session_id,
                         [session EXCEPT !.turns = @ + 1])
    /\ response' = PassThroughResponse(session_id, session)
    /\ exit_decision' = NoExitDecision
    /\ generation' = NoGeneration
    /\ UNCHANGED callbacks

\* the pass-through return
PassThroughTail(session_id, session) ==
    /\ SESSIONS' = Store(SESSIONS, session_id, session)
    /\ response' = PassThroughResponse(session_id, session)
    /\ exit_decision' = NoExitDecision
    /\ generation' = NoGeneration
    /\ UNCHANGED callbacks

\* the exit branch answering with the exit message of the persona that the
\* confidence of the exit turn selects
ExitTail_reselects_persona(session_id, called_with, session, cb) ==
    /\ callbacks' = Append(callbacks,
                           send_final_callback(session_id, called_with, cb))
    /\ SESSIONS' = Store(SESSIONS, session_id, CompleteSession(session))
    /\ generation' = NoGeneration
    /\ response' = EngagedResponse(session_id, CompleteSession(session),
                       generate_exit_message(
                           select_persona(session.confidence,
                                          session.current_persona),
                           session.extracted))

\* the exit branch marking the session completed only when the callback
\* was delivered (session.completed = send_final_callback(...))
ExitTail_requires_delivery(session_id, called_with, session, cb) ==
    \E done \in {IF send_final_callback(session_id, called_with, cb).outcome.result
                 THEN CompleteSession(session) ELSE session} :
        /\ callbacks' = Append(callbacks,
                               send_final_callback(session_id, called_with, cb))
        /\ SESSIONS' = Store(SESSIONS, session_id, done)
        /\ generation' = NoGeneration
        /\ response' = EngagedResponse(session_id, done,
                           generate_exit_message(session.current_persona,
                                                 session.extracted))

\* the exit branch from the send_final_callback call on; called_with is the
\* session when the call is made, session the session when it returns
ExitTail(session_id, called_with, session, cb) ==
    /\ callbacks' = Append(callbacks,
                           send_final_callback(session_id, called_with, cb))
    /\ SESSIONS' = Store(SESSIONS, session_id, CompleteSession(session))
    /\ generation' = NoGeneration
    /\ response' = EngagedResponse(session_id, CompleteSession(session),
                       generate_exit_message(session.current_persona,
                                             session.extracted))

\* the reply branch from the generate_reply call on
ReplyTail(session_id, message_text, called_with, session, llm) ==
    \E gen \in {generate_reply(called_with.confidence, message_text,
                               called_with.current_persona, llm)} :
    \E final \in {IF gen.raised THEN session
                  ELSE TrackPersona(session, gen.persona)} :
        /\ UNCHANGED callbacks
        /\ generation' = [called |-> TRUE, raised |-> gen.raised,
                          failed |-> gen.raised \/ gen.llm.failed,
                          reply |-> gen.reply, persona |-> gen.persona,
                          mode |-> gen.mode, topic |-> gen.topic]
        /\ SESSIONS' = Store(SESSIONS, session_id, final)
        /\ response' = EngagedResponse(session_id, final,
                           IF gen.raised THEN GENERATION_ERROR_REPLY
                           ELSE gen.reply)

\* the choices round() has at an exact half
HalfChoices(session, det) ==
    IF IsHalf(session.confidence, Decay(det.flags, det.repetition, det.escalation))
    THEN BOOLEAN ELSE {FALSE}

\* POST /honeypot/message with a validated payload
handle_message(session_id, message_text) ==
    \E session \in {Arrived(SESSIONS, session_id, message_text, clock + 1)} :
    \E det \in {Detect(session, message_text)} :
        /\ clock' = clock + 1
        /\ request' = [sessionId |-> session_id, text |-> message_text]
        /\ detection' = det
        /\ UNCHANGED <<fn_in, fn_out>>
        /\ IF PassThrough(det)
           THEN PassThroughTail(session_id, session)
           ELSE \E half_up \in HalfChoices(session, det) :
                \E updated \in {ScamUpdate(session, det, message_text, half_up)} :
                \E exit \in {should_exit(ExitPolicyView(session, updated))} :
                    /\ exit_decision' = [evaluated |-> TRUE,
                                         exit_needed |-> exit.exit_needed,
                                         exit_reason |-> exit.exit_reason]
                    /\ IF ExitBranch(exit, updated)
                       THEN \E cb \in CallbackScripts :
                                ExitTail(session_id, updated, updated, cb)
                       ELSE \E llm \in LlmScripts :
                                ReplyTail(session_id, message_text, updated,
                                          updated, llm)

----------------------------------------------------------------------------
(* models.py: IncomingRequest and Message; main.py:                        *)
(* validation_exception_handler                                            *)

\* str.lstrip() and str.rstrip()
RECURSIVE LStrip(_)
LStrip(v) == IF v # <<>> /\ Head(v) \in WhiteSpace THEN LStrip(Tail(v)) ELSE v

RECURSIVE RStrip(_)
RStrip(v) ==
    IF v # <<>> /\ v[Len(v)] \in WhiteSpace
    THEN RStrip(SubSeq(v, 1, Len(v) - 1)) ELSE v

\* str.strip()
Strip(v) == RStrip(LStrip(v))

\* the field test without its validator: Field(..., min_length=1) alone
ValidString_min_length_only(v) == Len(v) >= 1

\* Field(..., min_length=1) and the validator "if not v.strip(): raise"
ValidString(v) == Len(v) >= 1 /\ Strip(v) # <<>>

\* IncomingRequest(**body): whether the body passes validation
ValidRequest(body) == ValidString(body.sessionId) /\ ValidString(body.text)

\* the payload the handler receives: both validators return v.strip()
Payload(body) == [sessionId |-> Strip(body.sessionId), text |-> Strip(body.text)]

\* the JSONResponse of validation_exception_handler
ValidationErrorResponse ==
    [status |-> "error", status_code |-> 422, error |-> "validation_error",
     message |-> "Invalid request data"]

\* POST /honeypot/message with a request body and the right API key: the
\* body is validated, and the handler runs only on a valid one
post_message(body) ==
    IF ValidRequest(body)
    THEN handle_message(Payload(body).sessionId, Payload(body).text)
    ELSE /\ clock' = clock + 1
         /\ response' = ValidationErrorResponse
         /\ UNCHANGED <<SESSIONS, request, detection, exit_decision, generation,
                        callbacks, fn_in, fn_out>>

----------------------------------------------------------------------------
(* middleware.py: RateLimitMiddleware                                      *)

RequestsPerMinute == 2   \* requests_per_minute of the checked runs (default 10)

HEALTH_PATHS == {"/health", "/health/detailed"}

NoHttp == [client_ip |-> None, path |-> None, status_code |-> 0]

\* the list comprehension keeping the request times younger than a minute,
\* those exactly 60 seconds old included
KeptTimes_keeps_a_minute_old(times, current_time) ==
    SelectSeq(times, LAMBDA req_time : current_time - req_time <= 60)

\* [req_time for req_time in ... if current_time - req_time < 60]
KeptTimes(times, current_time) ==
    SelectSeq(times, LAMBDA req_time : current_time - req_time < 60)

\* _clean_old_requests, followed by "Initialize if new IP"
clean_old_requests(counts, ip, current_time) ==
    [c \in DOMAIN counts \cup {ip} |->
        IF c = ip
        THEN (IF ip \in DOMAIN counts THEN KeptTimes(counts[ip], current_time)
              ELSE <<>>)
        ELSE counts[c]]

\* the JSONResponse of a request over the limit
RateLimitResponse ==
    [status |-> "error", status_code |-> 429, error |-> "rate_limit_exceeded",
     message |-> "Too many requests. Please try again later.", retry_after |-> 60]

\* health_check and detailed_health_check
HealthResponse == [status |-> "healthy", status_code |-> 200]

\* the routes behind the middleware: the message handler, and the health
\* checks, which read SESSIONS at most
call_next(path, session_id, message_text) ==
    IF path \in HEALTH_PATHS
    THEN /\ response' = HealthResponse
         /\ UNCHANGED <<SESSIONS, clock, request, detection, exit_decision,
                        generation, callbacks, fn_in, fn_out>>
    ELSE handle_message(session_id, message_text)

\* RateLimitMiddleware.dispatch for a request of client_ip to path
dispatch(client_ip, path, session_id, message_text) ==
    IF path \in HEALTH_PATHS
    THEN /\ call_next(path, session_id, message_text)
         /\ http' = [client_ip |-> client_ip, path |-> path,
                     status_code |-> 200]
         /\ UNCHANGED request_counts
    ELSE \E counts \in {clean_old_requests(request_counts, client_ip, time)} :
            IF Len(counts[client_ip]) >= RequestsPerMinute
            THEN /\ request_counts' = counts
                 /\ response' = RateLimitResponse
                 /\ http' = [client_ip |-> client_ip, path |-> path,
                             status_code |-> 429]
                 /\ UNCHANGED <<SESSIONS, clock, request, detection,
                                exit_decision, generation, callbacks, fn_in,
                                fn_out>>
            ELSE /\ request_counts' = [counts EXCEPT
                                          ![client_ip] = Append(@, time)]
                 /\ call_next(path, session_id, message_text)
                 /\ http' = [client_ip |-> client_ip, path |-> path,
                             status_code |-> 200]

----------------------------------------------------------------------------
(* Specifications                                                          *)

\* the session a step works on, as it was before the step (the defaults of
\* a session that the step creates)
Before(sid) == IF sid \in DOMAIN SESSIONS THEN SESSIONS[sid] ELSE NewSession(clock')

\* a step that handles a message of session sid
Handles(sid) == clock' # clock /\ request'.sessionId = sid

\* a sequence without its i-th element
RemoveAt(seq, i) == SubSeq(seq, 1, i - 1) \o SubSeq(seq, i + 1, Len(seq))

\* an event loop that runs other handlers while one waits for its call
EventLoopFree_yields(handlers) == TRUE

\* handle_message is a coroutine with no await, and call_llm and
\* send_final_callback are plain blocking calls: from its first statement
\* to its return no other handler runs on the event loop
EventLoopFree(handlers) == handlers = <<>>

\* a request reaches the server while others are being served
Dispatch(session_id, message_text) ==
    /\ pending' = Append(pending, [sessionId |-> session_id, text |-> message_text])
    /\ UNCHANGED <<SESSIONS, clock, request, response, detection, exit_decision,
                   generation, callbacks, fn_in, fn_out, running, log,
                   request_counts, time, http>>

\* the handler of pending[i] from its first statement to the external call
\* it makes (to its return, for a pass-through)
Begin(i) ==
    /\ EventLoopFree(running)
    /\ \E session \in {Arrived(SESSIONS, pending[i].sessionId, pending[i].text,
                               clock + 1)} :
       \E det \in {Detect(session, pending[i].text)} :
          /\ clock' = clock + 1
          /\ request' = pending[i]
          /\ detection' = det
          /\ pending' = RemoveAt(pending, i)
          /\ log' = Append(log, [sessionId |-> pending[i].sessionId,
                                 text |-> pending[i].text,
                                 is_scam |-> det.is_scam,
                                 flags |-> det.flags])
          /\ UNCHANGED <<fn_in, fn_out, request_counts, time, http>>
          /\ IF PassThrough(det)
             THEN /\ PassThroughTail(pending[i].sessionId, session)
                  /\ UNCHANGED running
             ELSE \E half_up \in HalfChoices(session, det) :
                  \E updated \in {ScamUpdate(session, det, pending[i].text, half_up)} :
                  \E exit \in {should_exit(ExitPolicyView(session, updated))} :
                      /\ exit_decision' = [evaluated |-> TRUE,
                                           exit_needed |-> exit.exit_needed,
                                           exit_reason |-> exit.exit_reason]
                      /\ SESSIONS' = Store(SESSIONS, pending[i].sessionId, updated)
                      /\ running' = Append(running,
                             [sessionId |-> pending[i].sessionId,
                              text |-> pending[i].text,
                              call |-> IF ExitBranch(exit, updated)
                                       THEN "send_final_callback"
                                       ELSE "generate_reply",
                              called_with |-> updated])
                      /\ UNCHANGED <<response, generation, callbacks>>

\* the external call of running[j] returns and the handler runs to its end
Return(j) ==
    /\ running' = RemoveAt(running, j)
    /\ request' = [sessionId |-> running[j].sessionId, text |-> running[j].text]
    /\ UNCHANGED <<clock, detection, exit_decision, fn_in, fn_out, pending, log,
                   request_counts, time, http>>
    /\ IF running[j].call = "send_final_callback"
       THEN \E cb \in CallbackScripts :
                ExitTail(running[j].sessionId, running[j].called_with,
                         SESSIONS[running[j].sessionId], cb)
       ELSE \E llm \in LlmScripts :
                ReplyTail(running[j].sessionId, running[j].text,
                          running[j].called_with,
                          SESSIONS[running[j].sessionId], llm)

SessionIds == {"s1"}

\* the messages of Spec: no flag, one flag, two keyword flags (twice, nearly
\* the same text), urgency and threat, those with escalation words (a decay
\* of 0.6), a payment handle
RunMessages == {M_HI, M_VERIFY, M_OTP, M_OTP2, M_BLOCK, M_LAST, M_UPI}

\* the messages of SpecLong: no flag, and two keyword flags
LongMessages == {M_HI, M_OTP}

MaxClock == 4       \* requests per run of Spec
MaxClockLong == 12  \* requests per run of SpecLong

Init ==
    /\ SESSIONS = <<>>
    /\ clock = 0
    /\ request = NoRequest
    /\ response = NoResponse
    /\ detection = NoDetection
    /\ exit_decision = NoExitDecision
    /\ generation = NoGeneration
    /\ callbacks = <<>>
    /\ fn_in = None
    /\ fn_out = None
    /\ pending = <<>>
    /\ running = <<>>
    /\ log = <<>>
    /\ request_counts = <<>>
    /\ time = 0
    /\ http = NoHttp

Next ==
    \E session_id \in SessionIds, message_text \in RunMessages :
        /\ clock < MaxClock
        /\ handle_message(session_id, message_text)
        /\ UNCHANGED <<pending, running, log, request_counts, time, http>>

Spec == Init /\ [][Next]_vars

NextLong ==
    \E session_id \in SessionIds, message_text \in LongMessages :
        /\ clock < MaxClockLong
        /\ handle_message(session_id, message_text)
        /\ UNCHANGED <<pending, running, log, request_counts, time, http>>

SpecLong == Init /\ [][NextLong]_vars

\* SpecPattern: the messages raise no flag, the urgency flag alone, two
\* keyword flags, or two keyword flags with urgency and threat
PatternMessages == {M_HI, M_TODAY, M_OTP, M_BLOCK}

MaxClockPattern == 5    \* requests per run of SpecPattern

NextPattern ==
    \E session_id \in SessionIds, message_text \in PatternMessages :
        /\ clock < MaxClockPattern
        /\ handle_message(session_id, message_text)
        /\ UNCHANGED <<pending, running, log, request_counts, time, http>>

SpecPattern == Init /\ [][NextPattern]_vars

\* SpecRequests: request bodies as they arrive, valid or not, for two
\* sessions; a session id and a text may be empty, blank, or padded
RawSessionIds == {<<>>, <<" ">>, <<"s","1">>, <<" ","s","1">>, <<"s","2">>}

RawTexts == {<<>>, <<" ","\t">>, M_OTP, <<" ">> \o M_OTP \o <<" ">>, M_LAST}

MaxClockRequests == 3   \* requests per run of SpecRequests

\* a request is received and answered; log keeps the body received last, as
\* it was sent
Receive(body) ==
    /\ clock < MaxClockRequests
    /\ post_message(body)
    /\ log' = << [sessionId |-> body.sessionId, text |-> body.text] >>
    /\ UNCHANGED <<pending, running, request_counts, time, http>>

NextRequests ==
    \E body \in [sessionId : RawSessionIds, text : RawTexts] : Receive(body)

SpecRequests == Init /\ [][NextRequests]_vars

\* SpecAsync: requests of two sessions are dispatched while others are
\* served; the messages raise no flag, two keyword flags, or exit at once
AsyncSessionIds == {"s1", "s2"}

AsyncMessages == {M_HI, M_OTP, M_LAST}

MaxRequests == 4    \* requests per run of SpecAsync

NextAsync ==
    \/ \E session_id \in AsyncSessionIds, message_text \in AsyncMessages :
          /\ Len(log) + Len(pending) < MaxRequests
          /\ Dispatch(session_id, message_text)
    \/ \E i \in 1..Len(pending) : Begin(i)
    \/ \E j \in 1..Len(running) : Return(j)

SpecAsync == Init /\ [][NextAsync]_vars

\* SpecPair: two runs of one message sequence, as the sessions "a" and "b";
\* run b also receives inserted messages, each of them passed through.
PairMessages == {M_HI, M_VERIFY, M_OTP, M_BLOCK, M_UPI}

MaxClockPair == 8   \* requests per run of SpecPair, both sessions together

\* what the last handled request adds to the log
LogEntry ==
    [sessionId |-> request'.sessionId, text |-> request'.text,
     is_scam |-> detection'.is_scam, flags |-> detection'.flags]

\* run a handles the next message of the sequence
PairFirst(message_text) ==
    /\ pending = <<>>
    /\ clock + 1 < MaxClockPair
    /\ handle_message("a", message_text)
    /\ pending' = << [sessionId |-> "b", text |-> message_text,
                      old |-> Before("a").confidence,
                      decay |-> Decay(detection'.flags, detection'.repetition,
                                      detection'.escalation),
                      new |-> SESSIONS'["a"].confidence] >>
    /\ log' = Append(log, LogEntry)
    /\ UNCHANGED <<running, request_counts, time, http>>

\* run b handles the same message; round() is a function, so the same
\* confidence and decay give the same result as in run a
PairSecond ==
    /\ pending # <<>>
    /\ handle_message("b", pending[1].text)
    /\ (/\ detection'.is_scam
        /\ Before("b").confidence = pending[1].old
        /\ Decay(detection'.flags, detection'.repetition, detection'.escalation)
              = pending[1].decay)
          => SESSIONS'["b"].confidence = pending[1].new
    /\ pending' = <<>>
    /\ log' = Append(log, LogEntry)
    /\ UNCHANGED <<running, request_counts, time, http>>

\* run b handles an inserted message, which is passed through
Insert(message_text) ==
    /\ pending = <<>>
    /\ clock < MaxClockPair
    /\ handle_message("b", message_text)
    /\ ~detection'.is_scam
    /\ log' = Append(log, LogEntry)
    /\ UNCHANGED <<pending, running, request_counts, time, http>>

NextPair ==
    \/ \E message_text \in PairMessages : PairFirst(message_text)
    \/ PairSecond
    \/ \E message_text \in PairMessages : Insert(message_text)

SpecPair == Init /\ [][NextPair]_vars

\* select_persona as a function of its arguments: Init draws the confidence
\* (two decimals) and the current persona, the action applies select_persona.
PersonaInputs ==
    [confidence : 0..100, current_persona : PersonaTypes \cup {None}]

InitPersona ==
    /\ SESSIONS = <<>>
    /\ clock = 0
    /\ request = NoRequest
    /\ response = NoResponse
    /\ detection = NoDetection
    /\ exit_decision = NoExitDecision
    /\ generation = NoGeneration
    /\ callbacks = <<>>
    /\ fn_in \in PersonaInputs
    /\ fn_out = None
    /\ pending = <<>>
    /\ running = <<>>
    /\ log = <<>>
    /\ request_counts = <<>>
    /\ time = 0
    /\ http = NoHttp

ApplySelectPersona ==
    /\ fn_out = None
    /\ fn_out' = select_persona(fn_in.confidence, fn_in.current_persona)
    /\ UNCHANGED <<SESSIONS, clock, request, response, detection, exit_decision,
                   generation, callbacks, fn_in, pending, running, log,
                   request_counts, time, http>>

NextPersona == ApplySelectPersona

SpecPersona == InitPersona /\ [][NextPersona]_vars

\* should_exit as a function of the session: Init draws the session's
\* confidence, turns and extracted sets, the action applies should_exit.
MaxExitTurns == 16

ExitInputs ==
    [confidence : 0..100,
     turns : 0..MaxExitTurns,
     extracted : [upiIds : {{}, EntityTable[M_UPI].upiIds},
                  phoneNumbers : {{}, EntityTable[M_PHONE].phoneNumbers},
                  phishingLinks : {{}, EntityTable[M_LINK].phishingLinks},
                  suspiciousKeywords : {{}, {SCAM_KEYWORDS[8]}}]]

InitExit ==
    /\ SESSIONS = <<>>
    /\ clock = 0
    /\ request = NoRequest
    /\ response = NoResponse
    /\ detection = NoDetection
    /\ exit_decision = NoExitDecision
    /\ generation = NoGeneration
    /\ callbacks = <<>>
    /\ fn_in \in ExitInputs
    /\ fn_out = NoExitDecision
    /\ pending = <<>>
    /\ running = <<>>
    /\ log = <<>>
    /\ request_counts = <<>>
    /\ time = 0
    /\ http = NoHttp

ApplyShouldExit ==
    /\ ~fn_out.evaluated
    /\ fn_out' = [evaluated |-> TRUE,
                  exit_needed |-> should_exit(fn_in).exit_needed,
                  exit_reason |-> should_exit(fn_in).exit_reason]
    /\ UNCHANGED <<SESSIONS, clock, request, response, detection, exit_decision,
                   generation, callbacks, fn_in, pending, running, log,
                   request_counts, time, http>>

NextExit == ApplyShouldExit

SpecExit == InitExit /\ [][NextExit]_vars

\* call_llm as a function of what its three attempts do: Init draws the
\* attempts, the action applies call_llm.
NoCall == [reply |-> None, failed |-> FALSE, attempts |-> 0, waits |-> <<>>]

InitLlm ==
    /\ SESSIONS = <<>>
    /\ clock = 0
    /\ request = NoRequest
    /\ response = NoResponse
    /\ detection = NoDetection
    /\ exit_decision = NoExitDecision
    /\ generation = NoGeneration
    /\ callbacks = <<>>
    /\ fn_in \in [1..3 -> LlmAttempts]
    /\ fn_out = NoCall
    /\ pending = <<>>
    /\ running = <<>>
    /\ log = <<>>
    /\ request_counts = <<>>
    /\ time = 0
    /\ http = NoHttp

ApplyCallLlm ==
    /\ fn_out = NoCall
    /\ fn_out' = call_llm([k \in 1..3 |-> AttemptOutcome(fn_in[k])])
    /\ UNCHANGED <<SESSIONS, clock, request, response, detection, exit_decision,
                   generation, callbacks, fn_in, pending, running, log,
                   request_counts, time, http>>

NextLlm == ApplyCallLlm

SpecLlm == InitLlm /\ [][NextLlm]_vars

\* update_confidence as a function of its arguments: Init draws the old
\* confidence (two decimals, as every stored confidence is), the signals of
\* the flags and the two behavioural results, the action applies
\* update_confidence.
MaxKeywordFlags == 4

\* detect_repetition results: not repetitive (nothing similar, something
\* similar below the threshold), repetitive once, twice, three times
RepetitionInputs ==
    {[is_repetitive |-> FALSE, similarity |-> 0, repeated_count |-> 0],
     [is_repetitive |-> FALSE, similarity |-> 65, repeated_count |-> 0],
     [is_repetitive |-> TRUE, similarity |-> 70, repeated_count |-> 1],
     [is_repetitive |-> TRUE, similarity |-> 85, repeated_count |-> 1],
     [is_repetitive |-> TRUE, similarity |-> 85, repeated_count |-> 2],
     [is_repetitive |-> TRUE, similarity |-> 100, repeated_count |-> 3]}

\* detect_escalation results
EscalationInputs ==
    {[is_escalating |-> FALSE, escalation_type |-> None,
      urgency_count |-> 0, threat_count |-> 0],
     [is_escalating |-> TRUE, escalation_type |-> "final_warning",
      urgency_count |-> 0, threat_count |-> 0],
     [is_escalating |-> TRUE, escalation_type |-> "repeated_pressure",
      urgency_count |-> 2, threat_count |-> 0]}

ConfidenceInputs ==
    [old_confidence : 0..100,
     urgency : BOOLEAN,
     threat : BOOLEAN,
     keywords : 0..MaxKeywordFlags,
     repetition_data : RepetitionInputs,
     escalation_data : EscalationInputs]

\* the flags list of an input, in the order detect_scam appends the flags
FlagsOf(input) ==
    [i \in 1..input.keywords |-> <<"keyword", SCAM_KEYWORDS[i]>>]
    \o (IF input.urgency THEN << <<"urgency">> >> ELSE <<>>)
    \o (IF input.threat THEN << <<"threat">> >> ELSE <<>>)
    \o (IF input.repetition_data.is_repetitive
        THEN << <<"repetition", input.repetition_data.similarity>> >> ELSE <<>>)
    \o (IF input.escalation_data.is_escalating
        THEN << <<"escalation", input.escalation_data.escalation_type>> >> ELSE <<>>)

\* the decay update_confidence computes for an input
DecayOf(input) ==
    Decay(FlagsOf(input), input.repetition_data, input.escalation_data)

\* update_confidence applied to an input
UpdateOf(input, half_up) ==
    update_confidence(input.old_confidence, FlagsOf(input), input.repetition_data,
                      input.escalation_data, half_up)

NoUpdate == [evaluated |-> FALSE, decay |-> 0, half_up |-> FALSE, new_confidence |-> 0]

InitConfidence ==
    /\ SESSIONS = <<>>
    /\ clock = 0
    /\ request = NoRequest
    /\ response = NoResponse
    /\ detection = NoDetection
    /\ exit_decision = NoExitDecision
    /\ generation = NoGeneration
    /\ callbacks = <<>>
    /\ fn_in \in ConfidenceInputs
    /\ fn_out = NoUpdate
    /\ pending = <<>>
    /\ running = <<>>
    /\ log = <<>>
    /\ request_counts = <<>>
    /\ time = 0
    /\ http = NoHttp

ApplyUpdateConfidence ==
    /\ ~fn_out.evaluated
    /\ \E half_up \in (IF IsHalf(fn_in.old_confidence, DecayOf(fn_in))
                       THEN BOOLEAN ELSE {FALSE}) :
          fn_out' = [evaluated |-> TRUE, decay |-> DecayOf(fn_in),
                     half_up |-> half_up,
                     new_confidence |-> UpdateOf(fn_in, half_up)]
    /\ UNCHANGED <<SESSIONS, clock, request, response, detection, exit_decision,
                   generation, callbacks, fn_in, pending, running, log,
                   request_counts, time, http>>

NextConfidence == ApplyUpdateConfidence

SpecConfidence == InitConfidence /\ [][NextConfidence]_vars

\* detect_scam as a function of its arguments: Init draws the message, the
\* history before it and the behaviour counters, the action applies
\* detect_scam (and with it detect_repetition and detect_escalation).
M_CHANCE == <<"L","A","S","T"," ","C","H","A","N","C","E">>

MaxPattern == 2     \* the largest behaviour counter drawn

DetectInputs ==
    [message : Messages \cup {M_CHANCE},
     message_history : {<<>>} \cup {<<m>> : m \in Messages}
                       \cup {<<a, b>> : a, b \in {M_HI, M_OTP}},
     behavior_patterns : [urgency : 0..MaxPattern, threat : 0..MaxPattern]]

NoDetectCall == [evaluated |-> FALSE, result |-> NoDetection]

InitDetect ==
    /\ SESSIONS = <<>>
    /\ clock = 0
    /\ request = NoRequest
    /\ response = NoResponse
    /\ detection = NoDetection
    /\ exit_decision = NoExitDecision
    /\ generation = NoGeneration
    /\ callbacks = <<>>
    /\ fn_in \in DetectInputs
    /\ fn_out = NoDetectCall
    /\ pending = <<>>
    /\ running = <<>>
    /\ log = <<>>
    /\ request_counts = <<>>
    /\ time = 0
    /\ http = NoHttp

ApplyDetectScam ==
    /\ ~fn_out.evaluated
    /\ fn_out' = [evaluated |-> TRUE,
                  result |-> detect_scam(fn_in.message, fn_in.message_history,
                                         fn_in.behavior_patterns)]
    /\ UNCHANGED <<SESSIONS, clock, request, response, detection, exit_decision,
                   generation, callbacks, fn_in, pending, running, log,
                   request_counts, time, http>>

NextDetect == ApplyDetectScam

SpecDetect == InitDetect /\ [][NextDetect]_vars

\* merge_intelligence as a function of its arguments: Init draws the two
\* dictionaries of lists (duplicates allowed), the action applies
\* merge_intelligence.
MaxListLen == 2     \* the longest list drawn for a key

UPI_A == <<"a","@","y","b","l">>
UPI_B == <<"b","@","p","a","y","t","m">>
PHONE_A == <<"9","8","7","6","5","4","3","2","1","0">>
LINK_A == <<"h","t","t","p",":","/","/","x",".","c","o">>

\* the lists over S of at most MaxListLen elements
ListsUpTo(S) == UNION {[1..n -> S] : n \in 0..MaxListLen}

MergeInputs ==
    [upiIds : ListsUpTo({UPI_A, UPI_B}),
     phoneNumbers : {<<>>, <<PHONE_A>>},
     phishingLinks : {<<>>, <<LINK_A>>},
     suspiciousKeywords : {<<>>, <<SCAM_KEYWORDS[8], SCAM_KEYWORDS[8]>>,
                           <<SCAM_KEYWORDS[9], SCAM_KEYWORDS[8]>>}]

NoMerge ==
    [evaluated |-> FALSE,
     merged |-> [upiIds |-> <<>>, phoneNumbers |-> <<>>, phishingLinks |-> <<>>,
                 suspiciousKeywords |-> <<>>]]

InitMerge ==
    /\ SESSIONS = <<>>
    /\ clock = 0
    /\ request = NoRequest
    /\ response = NoResponse
    /\ detection = NoDetection
    /\ exit_decision = NoExitDecision
    /\ generation = NoGeneration
    /\ callbacks = <<>>
    /\ fn_in \in [existing : MergeInputs, new : MergeInputs]
    /\ fn_out = NoMerge
    /\ pending = <<>>
    /\ running = <<>>
    /\ log = <<>>
    /\ request_counts = <<>>
    /\ time = 0
    /\ http = NoHttp

ApplyMergeIntelligence ==
    /\ ~fn_out.evaluated
    /\ \E merged \in MergedLists(fn_in.existing, fn_in.new) :
          fn_out' = [evaluated |-> TRUE, merged |-> merged]
    /\ UNCHANGED <<SESSIONS, clock, request, response, detection, exit_decision,
                   generation, callbacks, fn_in, pending, running, log,
                   request_counts, time, http>>

NextMerge == ApplyMergeIntelligence

SpecMerge == InitMerge /\ [][NextMerge]_vars

\* decide_mode as a function of the confidence: Init draws the confidence,
\* in hundredths, from [0,1] and from a margin on either side of it, the
\* action applies decide_mode.
ModeMargin == 20

ModeInputs == (0 - ModeMargin)..(100 + ModeMargin)

InitMode ==
    /\ SESSIONS = <<>>
    /\ clock = 0
    /\ request = NoRequest
    /\ response = NoResponse
    /\ detection = NoDetection
    /\ exit_decision = NoExitDecision
    /\ generation = NoGeneration
    /\ callbacks = <<>>
    /\ fn_in \in ModeInputs
    /\ fn_out = None
    /\ pending = <<>>
    /\ running = <<>>
    /\ log = <<>>
    /\ request_counts = <<>>
    /\ time = 0
    /\ http = NoHttp

ApplyDecideMode ==
    /\ fn_out = None
    /\ fn_out' = decide_mode(fn_in)
    /\ UNCHANGED <<SESSIONS, clock, request, response, detection, exit_decision,
                   generation, callbacks, fn_in, pending, running, log,
                   request_counts, time, http>>

NextMode == ApplyDecideMode

SpecMode == InitMode /\ [][NextMode]_vars

\* SpecEscalation: two sessions receive messages that raise the urgency flag
\* alone, the threat flag alone, a keyword with urgency, or two keywords
\* with threat; log keeps every handled request with its verdict
EscalationSessionIds == {"s1", "s2"}

EscalationMessages == {M_TODAY, M_LEGAL, M_UPI, M_THREAT}

MaxClockEscalation == 4     \* requests per run of SpecEscalation

NextEscalation ==
    \E session_id \in EscalationSessionIds, message_text \in EscalationMessages :
        /\ clock < MaxClockEscalation
        /\ handle_message(session_id, message_text)
        /\ log' = Append(log, LogEntry)
        /\ UNCHANGED <<pending, running, request_counts, time, http>>

SpecEscalation == Init /\ [][NextEscalation]_vars

\* SpecRateLimit: two clients send messages and health checks through the
\* rate limiter while time passes; log keeps the requests the limiter let
\* through to the message handler, with the time of each
ClientIps == {"10.0.0.1", "10.0.0.2"}

Paths == {"/honeypot/message", "/health", "/health/detailed"}

RateMessages == {M_HI, M_OTP}

\* the seconds that pass between two requests
TickSeconds == {30, 59}

MaxTime == 90           \* the last second of a run of SpecRateLimit
MaxClockRate == 3       \* handled messages per run of SpecRateLimit

\* a request arrives at the middleware
Arrive(client_ip, path, message_text) ==
    /\ path \notin HEALTH_PATHS => clock < MaxClockRate
    /\ dispatch(client_ip, path, "s1", message_text)
    /\ log' = IF path \notin HEALTH_PATHS /\ http'.status_code # 429
              THEN Append(log, [client_ip |-> client_ip, time |-> time])
              ELSE log
    /\ UNCHANGED <<time, pending, running>>

\* time passes
Tick(seconds) ==
    /\ time + seconds <= MaxTime
    /\ time' = time + seconds
    /\ UNCHANGED <<SESSIONS, clock, request, response, detection, exit_decision,
                   generation, callbacks, fn_in, fn_out, pending, running, log,
                   request_counts, http>>

NextRateLimit ==
    \/ \E client_ip \in ClientIps, path \in Paths, message_text \in RateMessages :
          Arrive(client_ip, path, message_text)
    \/ \E seconds \in TickSeconds : Tick(seconds)

SpecRateLimit == Init /\ [][NextRateLimit]_vars

\* the verdict detect_scam reaches on the flags of an input, with the
\* default threshold: min(1.0, 0.2 * flags) >= 0.4
ScamFlagged(input) ==
    (IF 20 * Len(FlagsOf(input)) < 100 THEN 20 * Len(FlagsOf(input)) ELSE 100) >= 40

\* SpecTurns: the scam-flagged turns of one session with the message of
\* each turn left open.  A turn draws what detect_scam can find in a message
\* (keyword flags, urgency, threat, a repetition result, escalation words)
\* and what the extractor can (nothing, or a payment handle); the counters
\* of the session decide on repeated_pressure.  The turn runs the session
\* updates of the scam branch, should_exit() and "session.completed = True";
\* the delivery call and the reply branch, which write none of the fields
\* that detection and exit policy read, are left out.
MaxScamTurns == 16      \* scam-flagged turns per run of SpecTurns

\* none to three keyword flags, alone, with urgency or with a threat
LexicalInputs ==
    {FlagsOf([keywords |-> k, urgency |-> i[1], threat |-> i[2],
              repetition_data |-> [is_repetitive |-> FALSE],
              escalation_data |-> [is_escalating |-> FALSE]]) :
        k \in 0..3, i \in {<<FALSE, FALSE>>, <<TRUE, FALSE>>, <<FALSE, TRUE>>}}

\* no repetition, the weakest repetition, a repeated repetition
TurnRepetitions ==
    {r \in RepetitionInputs :
        \/ r.similarity = 0
        \/ r.similarity = 70
        \/ r.similarity = 85 /\ r.repeated_count = 2}

FoundInputs ==
    {[upiIds |-> ids, phoneNumbers |-> {}, phishingLinks |-> {}] :
        ids \in {{}, {UPI_A}}}

\* the scam branch of handle_message for a message with the given findings
ScamTurn(lexical_flags, repetition_result, has_escalation_words, found) ==
    \E session \in {update_activity(SESSIONS["s1"], clock + 1)} :
    \E det \in {ScamResult(lexical_flags, repetition_result,
                           EscalationResult(has_escalation_words,
                                            session.behavior_patterns))} :
    \E half_up \in HalfChoices(session, det) :
    \E updated \in {[session EXCEPT
                       !.behavior_patterns = UpdateBehaviorPatterns(@, det.flags),
                       !.confidence = update_confidence(@, det.flags,
                                          det.repetition, det.escalation, half_up),
                       !.extracted = merge_intelligence(@,
                                         Intelligence(found,
                                             extract_suspicious_keywords(<<>>,
                                                                         det.flags))),
                       !.turns = @ + 1]} :
    \E exit \in {should_exit(ExitPolicyView(session, updated))} :
        /\ clock < MaxScamTurns
        /\ det.is_scam
        /\ clock' = clock + 1
        /\ exit_decision' = [evaluated |-> TRUE,
                             exit_needed |-> exit.exit_needed,
                             exit_reason |-> exit.exit_reason]
        /\ SESSIONS' = Store(SESSIONS, "s1",
                             IF ExitBranch(exit, updated)
                             THEN CompleteSession(updated) ELSE updated)
        /\ UNCHANGED <<request, response, detection, generation, callbacks,
                       fn_in, fn_out, pending, running, log, request_counts,
                       time, http>>

InitTurns ==
    /\ SESSIONS = [id \in {"s1"} |-> NewSession(0)]
    /\ clock = 0
    /\ request = NoRequest
    /\ response = NoResponse
    /\ detection = NoDetection
    /\ exit_decision = NoExitDecision
    /\ generation = NoGeneration
    /\ callbacks = <<>>
    /\ fn_in = None
    /\ fn_out = None
    /\ pending = <<>>
    /\ running = <<>>
    /\ log = <<>>
    /\ request_counts = <<>>
    /\ time = 0
    /\ http = NoHttp

NextTurns ==
    \E lexical_flags \in LexicalInputs, repetition_result \in TurnRepetitions,
       has_escalation_words \in BOOLEAN, found \in FoundInputs :
        ScamTurn(lexical_flags, repetition_result, has_escalation_words, found)

SpecTurns == InitTurns /\ [][NextTurns]_vars

----------------------------------------------------------------------------
(* Properties                                                              *)

\* C1: the stored confidence of every session stays within [0,1], never
\* increases from one handled message to the next, and starts at 1.0: the
\* first message of a session leaves 1.0 when it is not scam-flagged and
\* 1.0 minus its decay (not below 0, to two decimals) when it is.
C1_ConfidenceNonIncreasing ==
    [][\A sid \in DOMAIN SESSIONS' :
          /\ SESSIONS'[sid].confidence \in 0..100
          /\ sid \in DOMAIN SESSIONS =>
                SESSIONS'[sid].confidence <= SESSIONS[sid].confidence
          /\ sid \notin DOMAIN SESSIONS =>
                LET d == Decay(detection'.flags, detection'.repetition,
                               detection'.escalation)
                    left == IF d >= 1000 THEN 0 ELSE 1000 - d
                    c == 10 * SESSIONS'[sid].confidence
                IN  IF detection'.is_scam
                    THEN c - left \in -5..5
                    ELSE c = 1000]_vars

C1_Witness ==
    \E sid \in DOMAIN SESSIONS :
        /\ SESSIONS[sid].turns >= 2
        /\ SESSIONS[sid].confidence \in 1..99
        /\ detection.is_scam

\* C2: a message whose verdict is non-scam leaves confidence, turns,
\* behaviorPatterns, the extracted sets, currentPersona, personaHistory and
\* completed of its session as they were before the message.
C2_PassThroughFrame ==
    [][\A sid \in DOMAIN SESSIONS' :
          (Handles(sid) /\ ~detection'.is_scam) =>
              /\ SESSIONS'[sid].confidence = Before(sid).confidence
              /\ SESSIONS'[sid].turns = Before(sid).turns
              /\ SESSIONS'[sid].behavior_patterns = Before(sid).behavior_patterns
              /\ SESSIONS'[sid].extracted = Before(sid).extracted
              /\ SESSIONS'[sid].current_persona = Before(sid).current_persona
              /\ SESSIONS'[sid].persona_history = Before(sid).persona_history
              /\ SESSIONS'[sid].completed = Before(sid).completed]_vars

\* a non-scam message that raised a flag, on a session that scam-flagged
\* turns have already changed
C2_Witness ==
    /\ response.status = "success"
    /\ ~detection.is_scam
    /\ Len(detection.flags) > 0
    /\ SESSIONS[request.sessionId].turns >= 1
    /\ SESSIONS[request.sessionId].confidence < 100

\* C3: in every successful response agent_engaged and scam_detected both
\* equal the scam verdict of the current message, and reply is null exactly
\* when agent_engaged is false.
C3_ResponseFollowsVerdict ==
    response.status = "success" =>
        /\ response.agent_engaged = detection.is_scam
        /\ response.scam_detected = detection.is_scam
        /\ (response.reply = None) <=> ~response.agent_engaged

\* an engaged response on a session whose earlier message was passed through
C3_Witness ==
    /\ response.status = "success"
    /\ response.agent_engaged
    /\ response.reply # None
    /\ SESSIONS[request.sessionId].turns = 1
    /\ Len(SESSIONS[request.sessionId].message_history) >= 2

\* C4: a pass-through response reports confidence 1.0 whatever the session
\* stores, and the turns of the session, which the message left unchanged.
C4_PassThroughReports ==
    [][\A sid \in DOMAIN SESSIONS' :
          (Handles(sid) /\ response'.status = "success" /\ ~response'.agent_engaged) =>
              /\ response'.confidence = 100
              /\ response'.turns = Before(sid).turns
              /\ response'.turns = SESSIONS'[sid].turns]_vars

\* a pass-through response on a session whose stored confidence is lower
C4_Witness ==
    /\ response.status = "success"
    /\ ~response.agent_engaged
    /\ response.confidence = 100
    /\ SESSIONS[request.sessionId].confidence < 100
    /\ SESSIONS[request.sessionId].turns >= 1

\* C5: should_exit reports the first condition that holds, in the order
\* confidence <= threshold, then collected intelligence with turns >= 3,
\* then turns >= 15, and no exit when none holds.
C5_ExitPrecedence ==
    fn_out.evaluated =>
        LET c1 == fn_in.confidence <= 40
            c2 == /\ fn_in.turns >= 3
                  /\ fn_in.extracted.upiIds \cup fn_in.extracted.phoneNumbers
                        \cup fn_in.extracted.phishingLinks # {}
            c3 == fn_in.turns >= 15
        IN  /\ fn_out.exit_needed = (c1 \/ c2 \/ c3)
            /\ c1 => fn_out.exit_reason = "confidence_threshold"
            /\ (~c1 /\ c2) => fn_out.exit_reason = "intelligence_collected"
            /\ (~c1 /\ ~c2 /\ c3) => fn_out.exit_reason = "max_turns_reached"
            /\ (~c1 /\ ~c2 /\ ~c3) => fn_out.exit_reason = None

\* all three conditions hold at once
C5_Witness ==
    /\ fn_out.evaluated
    /\ fn_in.confidence <= 40
    /\ fn_in.turns >= 15
    /\ fn_in.extracted.phoneNumbers # {}
    /\ fn_out.exit_reason = "confidence_threshold"

\* C6: once completed is true it stays true after every later message.
C6_CompletedIrreversible ==
    [][\A sid \in DOMAIN SESSIONS :
          SESSIONS[sid].completed =>
              sid \in DOMAIN SESSIONS' /\ SESSIONS'[sid].completed]_vars

\* a completed session that has handled a later scam-flagged message
C6_Witness ==
    \E sid \in DOMAIN SESSIONS :
        /\ SESSIONS[sid].completed
        /\ Len(callbacks) = 1
        /\ SESSIONS[sid].turns > callbacks[1].payload.totalMessagesExchanged

ExitMessages ==
    {get_exit_message(p, <<>>) : p \in PersonaTypes} \cup {EXIT_FALLBACK}

CallbacksOf(calls, sid) == {i \in 1..Len(calls) : calls[i].payload.sessionId = sid}

\* C7: send_final_callback is invoked for a session exactly on the turn on
\* which the exit policy fires while the session is not yet completed, the
\* turn that sets completed; never on another turn, so at most once per
\* session; that turn answers with the termination message and generates
\* no reply.
C7_CallbackOnExitTurnOnly ==
    /\ [](\A sid \in SessionIds : Cardinality(CallbacksOf(callbacks, sid)) <= 1)
    /\ [][\A sid \in DOMAIN SESSIONS' :
            LET fires == /\ Handles(sid)
                         /\ exit_decision'.evaluated
                         /\ exit_decision'.exit_needed
                         /\ ~Before(sid).completed
            IN  /\ fires <=> Cardinality(CallbacksOf(callbacks', sid))
                               = Cardinality(CallbacksOf(callbacks, sid)) + 1
                /\ ~fires => CallbacksOf(callbacks', sid) = CallbacksOf(callbacks, sid)
                /\ fires <=> (SESSIONS'[sid].completed /\ ~Before(sid).completed)
                /\ fires => /\ response'.reply \in ExitMessages
                            /\ ~generation'.called
                            /\ callbacks' = Append(callbacks, callbacks'[Len(callbacks')])]_vars

\* an exit condition holds again on a turn after the one that completed
C7_Witness ==
    \E sid \in DOMAIN SESSIONS :
        /\ SESSIONS[sid].completed
        /\ Cardinality(CallbacksOf(callbacks, sid)) = 1
        /\ request.sessionId = sid
        /\ exit_decision.exit_needed
        /\ generation.called

\* C8: turns grows by exactly 1 on each scam-flagged message of the session
\* and is unchanged by every other message.
C8_TurnsCountScamMessages ==
    [][\A sid \in DOMAIN SESSIONS' :
          SESSIONS'[sid].turns =
              Before(sid).turns
              + (IF Handles(sid) /\ detection'.is_scam THEN 1 ELSE 0)]_vars

\* scam-flagged turns before and after completion, and a passed message
C8_Witness ==
    \E sid \in DOMAIN SESSIONS :
        /\ SESSIONS[sid].completed
        /\ SESSIONS[sid].turns >= 3
        /\ Len(SESSIONS[sid].message_history) > SESSIONS[sid].turns

\* C9: every inbound message, whatever its verdict, becomes the last entry
\* of messageHistory; the entries before it keep their order; the history
\* never holds more than 10 texts, the oldest being dropped first.
C9_HistoryBounded ==
    [][\A sid \in DOMAIN SESSIONS' :
          LET old == Before(sid).message_history
              new == SESSIONS'[sid].message_history
              dropped == Len(old) + 1 - Len(new)
          IN  IF Handles(sid)
              THEN /\ Len(new) = (IF Len(old) < 10 THEN Len(old) + 1 ELSE 10)
                   /\ new[Len(new)] = request'.text
                   /\ \A i \in 1..(Len(new) - 1) : new[i] = old[i + dropped]
              ELSE new = old]_vars

\* a full history that has dropped its oldest entries, the newest entry
\* being a message that was passed through
C9_Witness ==
    \E sid \in DOMAIN SESSIONS :
        /\ Len(SESSIONS[sid].message_history) = 10
        /\ clock >= 12
        /\ request.sessionId = sid
        /\ ~detection.is_scam
        /\ SESSIONS[sid].message_history[1] # SESSIONS[sid].message_history[10]

\* C10: the repetition result of a message is computed against the (at
\* most 5) messages that arrived immediately before it, never against the
\* message itself; the first message of a session is never repetitive.
C10_RepetitionAgainstPrior ==
    [][\A sid \in DOMAIN SESSIONS' :
          Handles(sid) =>
              LET old == Before(sid).message_history
                  window == {i \in 1..Len(old) : i > Len(old) - 5}
                  similar == {i \in window :
                                 SimAtLeast(Similarity(request'.text, old[i]), 70)}
              IN  /\ detection'.repetition.repeated_count = Cardinality(similar)
                  /\ detection'.repetition.is_repetitive <=> similar # {}
                  /\ old = <<>> => ~detection'.repetition.is_repetitive]_vars

\* the same text arrived six messages ago, and is too old to count
C10_Witness ==
    \E sid \in DOMAIN SESSIONS :
        LET h == SESSIONS[sid].message_history
        IN  /\ request.sessionId = sid
            /\ Len(h) >= 7
            /\ h[Len(h) - 6] = request.text
            /\ \A i \in 1..5 : h[Len(h) - i] # request.text
            /\ ~detection.repetition.is_repetitive

\* C14: currentPersona is null until the first scam-flagged message: a
\* session with turns = 0 has no current persona and an empty personaHistory.
C14_NoPersonaBeforeFirstScam ==
    \A sid \in DOMAIN SESSIONS :
        SESSIONS[sid].turns = 0 =>
            /\ SESSIONS[sid].current_persona = None
            /\ SESSIONS[sid].persona_history = <<>>

\* a session that has only passed messages through, two or more of them
C14_Witness ==
    \E sid \in DOMAIN SESSIONS :
        /\ SESSIONS[sid].turns = 0
        /\ Len(SESSIONS[sid].message_history) >= 2
        /\ SESSIONS[sid].current_persona = None

\* C12: a record {from, to, turn, confidence} is appended to personaHistory,
\* and currentPersona updated, exactly when a continuing turn selects a
\* persona different from a non-null currentPersona; the first selection of
\* a session sets currentPersona and appends no record.
C12_PersonaTransitionLogged ==
    [][\A sid \in DOMAIN SESSIONS' :
          LET old == Before(sid)
              new == SESSIONS'[sid]
              selects == Handles(sid) /\ generation'.called /\ ~generation'.raised
              transition == /\ selects
                            /\ old.current_persona # None
                            /\ generation'.persona # old.current_persona
          IN  /\ IF transition
                 THEN /\ new.persona_history =
                            Append(old.persona_history,
                                   [from |-> old.current_persona,
                                    to |-> generation'.persona,
                                    turn |-> new.turns,
                                    confidence |-> new.confidence])
                      /\ new.current_persona = generation'.persona
                 ELSE new.persona_history = old.persona_history
              /\ (selects /\ old.current_persona = None) =>
                    new.current_persona = generation'.persona
              /\ ~selects => new.current_persona = old.current_persona]_vars

\* C13: for every confidence in [0,1] and every current_persona argument,
\* select_persona returns the first band, in declared order, that holds the
\* confidence, so 0.7, 0.5 and 0.3 map to the higher band; the result
\* depends on the confidence only, and some band always matches.
C13_PersonaBands ==
    fn_out # None =>
        LET c == fn_in.confidence
        IN  /\ fn_out = (IF c >= 70 THEN "confused_user"
                         ELSE IF c >= 50 THEN "nervous_elder"
                         ELSE IF c >= 30 THEN "over_polite"
                         ELSE "tech_savvy")
            /\ MatchingPersonas(c) # {}
            /\ \A p \in PersonaTypes \cup {None} : select_persona(c, p) = fn_out

\* a boundary confidence, with a current persona of another band
C13_Witness ==
    /\ fn_out = "confused_user"
    /\ fn_in.confidence = 70
    /\ fn_in.current_persona = "tech_savvy"

\* C15: the exit policy is evaluated exactly on the scam-flagged turns, and
\* its decision is the one should_exit gives for the session as the turn
\* leaves it: after the confidence update, the extraction merge and the turn
\* increment of that same turn.
C15_ExitUsesUpdatedSession ==
    [][\A sid \in DOMAIN SESSIONS' :
          Handles(sid) =>
              /\ exit_decision'.evaluated <=> detection'.is_scam
              /\ exit_decision'.evaluated =>
                    /\ SESSIONS'[sid].turns = Before(sid).turns + 1
                    /\ exit_decision'.exit_needed =
                           should_exit(SESSIONS'[sid]).exit_needed
                    /\ exit_decision'.exit_reason =
                           should_exit(SESSIONS'[sid]).exit_reason]_vars

\* the third scam-flagged turn brings the first payment handle, and the
\* session exits on that turn
C15_Witness ==
    \E sid \in DOMAIN SESSIONS :
        LET h == SESSIONS[sid].message_history
        IN  /\ request.sessionId = sid
            /\ request.text = M_UPI
            /\ \A i \in 1..(Len(h) - 1) : h[i] # M_UPI
            /\ SESSIONS[sid].turns = 3
            /\ exit_decision.exit_needed
            /\ exit_decision.exit_reason = "intelligence_collected"
            /\ SESSIONS[sid].completed
            /\ Len(callbacks) = 1

\* C18: a failure during reply generation on a continuing turn does not
\* fail the turn: the response is a success with agent_engaged true, it
\* carries a fallback reply (the handler's own when generate_reply raises,
\* call_llm's when the model call fails), and it reports the confidence and
\* turns the turn has already updated.
C18_GenerationFailureContained ==
    [][\A sid \in DOMAIN SESSIONS' :
          (Handles(sid) /\ generation'.called /\ generation'.failed) =>
              /\ response'.status = "success"
              /\ response'.session_id = sid
              /\ response'.agent_engaged /\ response'.scam_detected
              /\ response'.reply \in
                     {GENERATION_ERROR_REPLY, LLM_ERROR_REPLY, LLM_BUSY_REPLY}
              /\ generation'.raised => response'.reply = GENERATION_ERROR_REPLY
              /\ response'.turns = Before(sid).turns + 1
              /\ response'.turns = SESSIONS'[sid].turns
              /\ response'.confidence = SESSIONS'[sid].confidence
              /\ response'.confidence <= Before(sid).confidence]_vars

\* the model call failed on all three attempts of a later turn
C18_Witness ==
    /\ generation.called
    /\ generation.failed
    /\ response.reply = LLM_BUSY_REPLY
    /\ response.turns >= 2
    /\ response.confidence < 90
    /\ SESSIONS[request.sessionId].confidence = response.confidence

\* C19: when every delivery attempt of the exit turn fails,
\* send_final_callback returns False after its last attempt, the handler
\* goes on, the session is marked completed, and the turn answers with the
\* termination message as a successful response.
C19_DeliveryFailureContained ==
    [][\A sid \in DOMAIN SESSIONS' :
          (/\ Handles(sid)
           /\ Len(callbacks') = Len(callbacks) + 1
           /\ ~callbacks'[Len(callbacks')].outcome.result) =>
              /\ callbacks'[Len(callbacks')].outcome.attempts = CallbackRetryAttempts
              /\ callbacks'[Len(callbacks')].payload.sessionId = sid
              /\ ~Before(sid).completed
              /\ SESSIONS'[sid].completed
              /\ response'.status = "success"
              /\ response'.session_id = sid
              /\ response'.agent_engaged
              /\ response'.reply \in ExitMessages]_vars

\* an exit turn whose three delivery attempts all failed
C19_Witness ==
    /\ Len(callbacks) = 1
    /\ ~callbacks[1].outcome.result
    /\ callbacks[1].outcome.attempts = 3
    /\ callbacks[1].payload.sessionId = request.sessionId
    /\ SESSIONS[request.sessionId].turns = callbacks[1].payload.totalMessagesExchanged
    /\ SESSIONS[request.sessionId].completed
    /\ response.reply \in ExitMessages

\* the outcome of a delivery call stops at the first success and makes at
\* most 3 attempts
StopsAtFirstSuccess(c) ==
    /\ c.outcome.attempts \in 1..3
    /\ \A k \in 1..(c.outcome.attempts - 1) : c.script[k] = "fail"
    /\ c.outcome.result <=> c.script[c.outcome.attempts] = "ok"
    /\ ~c.outcome.result => c.outcome.attempts = 3

ScamHandled(sid) ==
    {i \in 1..Len(log) : log[i].sessionId = sid /\ log[i].is_scam}

\* the texts of the handled requests of a session, in the order handled
RECURSIVE TextsHandled(_, _)
TextsHandled(entries, sid) ==
    IF entries = <<>> THEN <<>>
    ELSE (IF Head(entries).sessionId = sid THEN <<Head(entries).text>> ELSE <<>>)
         \o TextsHandled(Tail(entries), sid)

\* a step that starts the handler of a scam-flagged request of session sid
StartsScamTurn(sid) ==
    /\ Len(log') = Len(log) + 1
    /\ log'[Len(log')].sessionId = sid
    /\ log'[Len(log')].is_scam

\* C16: requests that are dispatched concurrently are handled one at a
\* time, so the read-modify-write of a session is never interleaved: at
\* most one handler is between its first statement and its return; turns
\* counts every scam-flagged request handled, the history holds every
\* handled text (the last 10), each scam-flagged request decays the
\* confidence it finds and nothing else changes it, and the delivery call
\* is made at most once per session.
C16_SessionUpdatesSerialized ==
    /\ [](/\ Len(running) <= 1
          /\ \A sid \in DOMAIN SESSIONS :
                /\ SESSIONS[sid].turns = Cardinality(ScamHandled(sid))
                /\ SESSIONS[sid].message_history = LastN(TextsHandled(log, sid), 10)
                /\ Cardinality(CallbacksOf(callbacks, sid)) <= 1)
    /\ [][\A sid \in DOMAIN SESSIONS' :
            IF StartsScamTurn(sid)
            THEN SESSIONS'[sid].confidence \in
                     {update_confidence(Before(sid).confidence, detection'.flags,
                                        detection'.repetition,
                                        detection'.escalation, half_up) :
                          half_up \in BOOLEAN}
            ELSE SESSIONS'[sid].confidence = Before(sid).confidence]_vars

\* three scam-flagged requests of one session were dispatched together: one
\* is handled and its session completed, one waits for its external call,
\* one is still pending
C16_Witness ==
    /\ Len(running) = 1
    /\ Len(pending) = 1
    /\ Len(log) = 2
    /\ running[1].sessionId = "s1"
    /\ pending[1].sessionId = "s1"
    /\ log[1].sessionId = "s1"
    /\ SESSIONS["s1"].turns = 2
    /\ SESSIONS["s1"].completed
    /\ Len(callbacks) = 1

\* C17 as stated: an external call is made only once the turn's counters,
\* completed included, are committed to the session, and while a handler
\* waits for its external call the handler of a pending request of another
\* session can start.
C17_ExternalCallsDoNotBlock ==
    \A j \in 1..Len(running) :
        /\ SESSIONS[running[j].sessionId].confidence = running[j].called_with.confidence
        /\ SESSIONS[running[j].sessionId].turns = running[j].called_with.turns
        /\ SESSIONS[running[j].sessionId].extracted = running[j].called_with.extracted
        /\ running[j].call = "send_final_callback" =>
               SESSIONS[running[j].sessionId].completed
        /\ \A i \in 1..Len(pending) :
               pending[i].sessionId # running[j].sessionId => ENABLED Begin(i)

\* the session of a run, with the defaults when the run has had no message
RunSession(sid) == IF sid \in DOMAIN SESSIONS THEN SESSIONS[sid] ELSE NewSession(0)

\* the two runs have handled the same message of the sequence last
SameMessageHandled ==
    /\ pending = <<>>
    /\ Len(log) >= 2
    /\ log[Len(log)].sessionId = "b"
    /\ log[Len(log) - 1].sessionId = "a"

\* the two runs agree on the verdict and flags of the message of the
\* sequence they handled last, and on confidence, turns and extracted sets
RunsAgree ==
    /\ SameMessageHandled =>
          /\ log[Len(log)].text = log[Len(log) - 1].text
          /\ log[Len(log)].is_scam = log[Len(log) - 1].is_scam
          /\ log[Len(log)].flags = log[Len(log) - 1].flags
    /\ RunSession("a").confidence = RunSession("b").confidence
    /\ RunSession("a").turns = RunSession("b").turns
    /\ RunSession("a").extracted = RunSession("b").extracted

\* no message of either run has been flagged as a repetition
NoRepetitionFlag ==
    \A i \in 1..Len(log) : \A k \in 1..Len(log[i].flags) :
        log[i].flags[k][1] # "repetition"

\* C11 as stated: two message sequences on a session that differ only by
\* inserted non-scam messages give every other message the same verdict and
\* flags and end with the same confidence, turns and extracted sets.
C11_InsertedMessagesDoNotLeak == pending = <<>> => RunsAgree

\* C11 (amended): the same, as long as no message of either sequence is
\* flagged as a repetition; an inserted message enters messageHistory, so
\* it can make a later message repetitive or push an earlier one out of
\* the window.
C11_InsertedMessagesLeakOnlyByRepetition ==
    (pending = <<>> /\ NoRepetitionFlag) => RunsAgree

\* run b has had two inserted messages, one of them raising a flag, and
\* both runs have had two scam-flagged turns
C11_Witness ==
    /\ SameMessageHandled
    /\ NoRepetitionFlag
    /\ RunSession("a").turns >= 2
    /\ RunSession("a").confidence < 100
    /\ Len(RunSession("b").message_history) >= Len(RunSession("a").message_history) + 2
    /\ \E i \in 1..Len(log) : ~log[i].is_scam /\ log[i].flags # <<>>

\* the attempts of a call that raised a classified error: its text names a
\* quota, a connection or a remote end
ClassifiedFailures(attempts, n) ==
    {k \in 1..n : attempts[k] \in {<<"error", ERR_QUOTA>>, <<"error", ERR_CONNECTION>>,
                                   <<"error", ERR_REMOTE>>}}

\* C21: call_llm makes at most 3 attempts and always ends with a text: the
\* model's reply on the first success, the error fallback at once on the
\* first error that is not classified, the busy fallback after 3 classified
\* failures; the classified failure of attempt k is followed by a wait of
\* 2*k seconds, and nothing else waits.
C21_GenerationRetries ==
    fn_out # NoCall =>
        LET n == fn_out.attempts
            classified == ClassifiedFailures(fn_in, 3)
        IN  /\ n \in 1..3
            /\ \A k \in 1..(n - 1) : k \in classified
            /\ fn_out.reply \in {LLM_REPLY, LLM_ERROR_REPLY, LLM_BUSY_REPLY}
            /\ fn_out.reply = LLM_REPLY <=> fn_in[n] = <<"ok">>
            /\ fn_out.reply = LLM_ERROR_REPLY <=> fn_in[n] = <<"error", ERR_OTHER>>
            /\ fn_out.reply = LLM_BUSY_REPLY <=> (n = 3 /\ 3 \in classified)
            /\ fn_out.waits =
                   [k \in 1..Cardinality(ClassifiedFailures(fn_in, n)) |-> 2 * k]

\* a rate limit, then a dropped connection, then an error that is not
\* classified: two waits, and the error fallback on the third attempt
C21_Witness ==
    /\ fn_in = << <<"error", ERR_QUOTA>>, <<"error", ERR_REMOTE>>, <<"error", ERR_OTHER>> >>
    /\ fn_out.attempts = 3
    /\ fn_out.waits = <<2, 4>>
    /\ fn_out.reply = LLM_ERROR_REPLY

\* C22: update_confidence returns max(0, old - decay) rounded to two
\* decimals, the decay being the sum of 0.10 for urgency, 0.15 for three or
\* more keyword flags or 0.08 for exactly two, 0.20 for threat,
\* 0.10 * similarity plus 0.10 when repeated_count >= 2 for a repetition,
\* 0.15 for a final_warning or 0.12 for a repeated_pressure escalation; the
\* result is never below 0 and never above old.
C22_DecaySum ==
    fn_out.evaluated =>
        LET decay ==
                (IF fn_in.urgency THEN 100 ELSE 0)
                + (IF fn_in.keywords >= 3 THEN 150
                   ELSE IF fn_in.keywords = 2 THEN 80 ELSE 0)
                + (IF fn_in.threat THEN 200 ELSE 0)
                + (IF fn_in.repetition_data.is_repetitive
                   THEN fn_in.repetition_data.similarity
                        + (IF fn_in.repetition_data.repeated_count >= 2
                           THEN 100 ELSE 0)
                   ELSE 0)
                + (IF ~fn_in.escalation_data.is_escalating THEN 0
                   ELSE IF fn_in.escalation_data.escalation_type = "final_warning"
                   THEN 150 ELSE 120)
            exact == IF 10 * fn_in.old_confidence > decay
                     THEN 10 * fn_in.old_confidence - decay ELSE 0
        IN  /\ fn_out.decay = decay
            /\ 10 * fn_out.new_confidence - exact \in -5..5
            /\ exact % 10 # 5 => 10 * fn_out.new_confidence - exact \in -4..4
            /\ fn_out.new_confidence >= 0
            /\ fn_out.new_confidence <= fn_in.old_confidence

\* every signal at once: a decay of 0.80 on a confidence of 0.30
C22_Witness ==
    /\ fn_out.evaluated
    /\ fn_in.old_confidence = 30
    /\ fn_in.urgency /\ fn_in.threat /\ fn_in.keywords = 3
    /\ fn_in.repetition_data.similarity = 100
    /\ fn_in.escalation_data.escalation_type = "final_warning"
    /\ fn_out.decay = 800
    /\ fn_out.new_confidence = 0

\* the inputs that add one qualifying signal to an input: the urgency flag,
\* the threat flag, one more keyword flag, a repetition result, an
\* escalation result
WithOneMoreSignal(input) ==
    (IF input.urgency THEN {} ELSE {[input EXCEPT !.urgency = TRUE]})
    \cup (IF input.threat THEN {} ELSE {[input EXCEPT !.threat = TRUE]})
    \cup {[input EXCEPT !.keywords = @ + 1]}
    \cup (IF input.repetition_data.is_repetitive THEN {}
          ELSE {[input EXCEPT !.repetition_data = r] :
                   r \in {x \in RepetitionInputs : x.is_repetitive}})
    \cup (IF input.escalation_data.is_escalating THEN {}
          ELSE {[input EXCEPT !.escalation_data = e] :
                   e \in {x \in EscalationInputs : x.is_escalating}})

\* C23: the decay is a function of the signals and monotone in them: adding
\* any one qualifying signal to an input never makes the decay smaller, so
\* the new confidence never gets larger (round() being a function, two
\* calls with the same old confidence and decay round the same way).
C23_DecayMonotone ==
    fn_out.evaluated =>
        /\ fn_out.decay = DecayOf(fn_in)
        /\ \A more \in WithOneMoreSignal(fn_in) :
              /\ DecayOf(more) >= fn_out.decay
              /\ \A half_up \in BOOLEAN :
                    (DecayOf(more) = fn_out.decay => half_up = fn_out.half_up)
                       => UpdateOf(more, half_up) <= fn_out.new_confidence

\* two keyword flags on a middle confidence: a third keyword flag, or any
\* other signal, lowers the result further
C23_Witness ==
    /\ fn_out.evaluated
    /\ fn_in.old_confidence = 60
    /\ fn_in.keywords = 2
    /\ ~fn_in.urgency /\ ~fn_in.threat
    /\ ~fn_in.repetition_data.is_repetitive
    /\ ~fn_in.escalation_data.is_escalating
    /\ fn_out.new_confidence = 52
    /\ \A more \in WithOneMoreSignal(fn_in) :
          UpdateOf(more, FALSE) < fn_out.new_confidence

\* C25: detect_escalation reports escalation iff a behaviour counter is at 2
\* or more or the message contains an escalation word; the type is
\* final_warning whenever an escalation word is present, the counters
\* qualifying or not, repeated_pressure when only the counters qualify, and
\* none otherwise.
C25_EscalationType ==
    fn_out.evaluated =>
        LET words == \E w \in ESCALATION_WORDS : Contains(Lower(fn_in.message), w)
            counters == \/ fn_in.behavior_patterns.urgency >= 2
                        \/ fn_in.behavior_patterns.threat >= 2
            escalation == fn_out.result.escalation
        IN  /\ escalation.is_escalating <=> (counters \/ words)
            /\ words => escalation.escalation_type = "final_warning"
            /\ (counters /\ ~words) => escalation.escalation_type = "repeated_pressure"
            /\ (~counters /\ ~words) => escalation.escalation_type = None
            /\ escalation = detect_escalation(fn_in.message, fn_in.behavior_patterns)

\* an escalation word in capitals while both counters qualify
C25_Witness ==
    /\ fn_out.evaluated
    /\ fn_in.message = M_CHANCE
    /\ fn_in.behavior_patterns = [urgency |-> 2, threat |-> 2]
    /\ fn_out.result.escalation.is_escalating
    /\ fn_out.result.escalation.escalation_type = "final_warning"

\* the number of flags a message raises: one per scam keyword it contains,
\* one each for urgency, threat, repetition and escalation
FlagCount(input, result) ==
    Cardinality({i \in 1..Len(SCAM_KEYWORDS) :
                    Contains(Lower(input.message), SCAM_KEYWORDS[i])})
    + (IF \E w \in URGENCY_WORDS : Contains(Lower(input.message), w) THEN 1 ELSE 0)
    + (IF \E w \in THREAT_WORDS : Contains(Lower(input.message), w) THEN 1 ELSE 0)
    + (IF result.repetition.is_repetitive THEN 1 ELSE 0)
    + (IF result.escalation.is_escalating THEN 1 ELSE 0)

\* C26: the detection confidence is min(1.0, 0.2 * number of flags) and the
\* verdict is scam iff it is at or above the scam threshold; with the
\* default threshold 0.4, iff the message raises at least 2 flags.
C26_VerdictFromFlagCount ==
    fn_out.evaluated =>
        LET n == FlagCount(fn_in, fn_out.result)
        IN  /\ Len(fn_out.result.flags) = n
            /\ fn_out.result.confidence = (IF 20 * n <= 100 THEN 20 * n ELSE 100)
            /\ fn_out.result.is_scam <=> fn_out.result.confidence >= ScamThreshold
            /\ fn_out.result.is_scam <=> n >= 2

\* a message without any keyword that is a scam by its behaviour alone: it
\* repeats the message before it while a counter qualifies
C26_Witness ==
    /\ fn_out.evaluated
    /\ fn_in.message = M_HI
    /\ fn_out.result.flags = << <<"repetition", 100>>, <<"escalation", "repeated_pressure">> >>
    /\ fn_out.result.confidence = 40
    /\ fn_out.result.is_scam

IntelligenceKeys == {"upiIds", "phoneNumbers", "phishingLinks", "suspiciousKeywords"}

\* no key of the dictionary holds a string twice
NoDuplicates(intelligence) ==
    \A key \in IntelligenceKeys :
        Cardinality(ToSet(intelligence[key])) = Len(intelligence[key])

\* C24: merge_intelligence is set union per field: read as sets of strings,
\* merge(a, a) = a and merge(a, b) = merge(b, a), merging the same result a
\* second time changes no set, and no field of a merge holds duplicates.
C24_MergeIsSetUnion ==
    fn_out.evaluated =>
        /\ NoDuplicates(fn_out.merged)
        /\ \A key \in IntelligenceKeys :
              ToSet(fn_out.merged[key]) =
                  ToSet(fn_in.existing[key]) \cup ToSet(fn_in.new[key])
        /\ SetsOf(fn_out.merged) =
               merge_intelligence(SetsOf(fn_in.existing), SetsOf(fn_in.new))
        /\ \A same \in MergedLists(fn_in.existing, fn_in.existing) :
              SetsOf(same) = SetsOf(fn_in.existing) /\ NoDuplicates(same)
        /\ \A swapped \in MergedLists(fn_in.new, fn_in.existing) :
              SetsOf(swapped) = SetsOf(fn_out.merged)
        /\ \A again \in MergedLists(fn_out.merged, fn_in.new) :
              SetsOf(again) = SetsOf(fn_out.merged) /\ NoDuplicates(again)

\* both arguments hold a string twice and share a string; the merge holds
\* each of the two strings once
C24_Witness ==
    /\ fn_out.evaluated
    /\ fn_in.existing.upiIds = <<UPI_A, UPI_A>>
    /\ fn_in.new.upiIds = <<UPI_B, UPI_A>>
    /\ fn_in.new.suspiciousKeywords = <<SCAM_KEYWORDS[8], SCAM_KEYWORDS[8]>>
    /\ fn_out.merged.upiIds = <<UPI_B, UPI_A>>
    /\ fn_out.merged.suspiciousKeywords = <<SCAM_KEYWORDS[8]>>

\* C27: each behaviour counter grows by exactly 1 on a scam-flagged turn
\* whose flags hold its signal and is unchanged by every other message, so
\* it never decreases and never exceeds turns.
C27_BehaviorCounters ==
    /\ [](\A sid \in DOMAIN SESSIONS :
             /\ SESSIONS[sid].behavior_patterns.urgency \in 0..SESSIONS[sid].turns
             /\ SESSIONS[sid].behavior_patterns.threat \in 0..SESSIONS[sid].turns)
    /\ [][\A sid \in DOMAIN SESSIONS' :
            LET scam_turn == Handles(sid) /\ detection'.is_scam
            IN  /\ SESSIONS'[sid].behavior_patterns.urgency =
                       Before(sid).behavior_patterns.urgency
                       + (IF scam_turn /\ HasFlag(detection'.flags, <<"urgency">>)
                          THEN 1 ELSE 0)
                /\ SESSIONS'[sid].behavior_patterns.threat =
                       Before(sid).behavior_patterns.threat
                       + (IF scam_turn /\ HasFlag(detection'.flags, <<"threat">>)
                          THEN 1 ELSE 0)]_vars

\* after a turn with both signals and a turn with neither, a message that
\* raises the urgency flag alone is passed through and counts nothing
C27_Witness ==
    /\ request.text = M_TODAY
    /\ ~detection.is_scam
    /\ detection.flags = << <<"urgency">> >>
    /\ SESSIONS[request.sessionId].turns = 2
    /\ SESSIONS[request.sessionId].behavior_patterns = [urgency |-> 1, threat |-> 1]

\* C28: the mode is EXIT for a confidence below 0.25, DEFLECTION from 0.25
\* to below 0.5, NORMAL from 0.5 on, and the derivation raises ValueError
\* for every confidence outside [0,1].
C28_ModeBands ==
    fn_out # None =>
        /\ (fn_in < 0 \/ fn_in > 100) <=> fn_out = "ValueError"
        /\ (0 <= fn_in /\ fn_in < 25) <=> fn_out = "EXIT"
        /\ (25 <= fn_in /\ fn_in < 50) <=> fn_out = "DEFLECTION"
        /\ (50 <= fn_in /\ fn_in <= 100) <=> fn_out = "NORMAL"

\* the first confidence above 1.0
C28_Witness ==
    /\ fn_in = 101
    /\ fn_out = "ValueError"

\* a string that is empty or holds white space only
Blank(v) == \A i \in 1..Len(v) : v[i] \in WhiteSpace

\* C29: a request whose session id or message text is empty or blank is
\* answered with the validation failure and the handler does not run: no
\* session is created, no session is changed, no external call is made and
\* nothing is kept to be tried again; every other request is handled, under
\* its stripped session id and text.
C29_InvalidRequestRejected ==
    [][clock' # clock =>
          IF Blank(log'[1].sessionId) \/ Blank(log'[1].text)
          THEN /\ response' = ValidationErrorResponse
               /\ SESSIONS' = SESSIONS
               /\ UNCHANGED <<request, detection, exit_decision, generation,
                              callbacks>>
               /\ pending' = <<>> /\ running' = <<>>
          ELSE /\ response'.status = "success"
               /\ request' = [sessionId |-> Strip(log'[1].sessionId),
                              text |-> Strip(log'[1].text)]
               /\ request'.sessionId \in DOMAIN SESSIONS']_vars

\* a blank text for a session that an earlier message has engaged: the
\* session keeps its turn and its last activity
C29_Witness ==
    /\ clock = 2
    /\ log = << [sessionId |-> <<" ","s","1">>, text |-> <<" ","\t">>] >>
    /\ response.status = "error"
    /\ DOMAIN SESSIONS = {<<"s","1">>}
    /\ SESSIONS[<<"s","1">>].turns = 1
    /\ SESSIONS[<<"s","1">>].last_activity = 1

\* C30: a session is created exactly when a handled message carries an id
\* the store does not hold, and it starts from confidence 1.0, turns 0,
\* completed false and empty extracted sets, which only that first message
\* has updated; an existing session is never re-initialised and no session
\* is ever removed, so the set of session ids only grows.
C30_SessionLifecycle ==
    [][/\ DOMAIN SESSIONS' =
             DOMAIN SESSIONS
             \cup (IF clock' # clock /\ response'.status = "success"
                   THEN {request'.sessionId} ELSE {})
       /\ \A sid \in DOMAIN SESSIONS :
             /\ SESSIONS'[sid].created_at = SESSIONS[sid].created_at
             /\ SESSIONS'[sid].turns >= SESSIONS[sid].turns
             /\ SESSIONS'[sid].confidence <= SESSIONS[sid].confidence
             /\ Len(SESSIONS'[sid].message_history) >= Len(SESSIONS[sid].message_history)
       /\ \A sid \in DOMAIN SESSIONS' \ DOMAIN SESSIONS :
             /\ SESSIONS'[sid].created_at = clock'
             /\ SESSIONS'[sid].message_history = <<request'.text>>
             /\ IF detection'.is_scam
                THEN /\ SESSIONS'[sid].turns = 1
                     /\ SESSIONS'[sid].confidence \in
                            {update_confidence(100, detection'.flags,
                                               detection'.repetition,
                                               detection'.escalation, half_up) :
                                 half_up \in BOOLEAN}
                     /\ SESSIONS'[sid].extracted =
                            extract_all_intelligence(request'.text, detection'.flags)
                ELSE /\ SESSIONS'[sid].turns = 0
                     /\ SESSIONS'[sid].confidence = 100
                     /\ ~SESSIONS'[sid].completed
                     /\ SESSIONS'[sid].extracted =
                            [upiIds |-> {}, phoneNumbers |-> {},
                             phishingLinks |-> {}, suspiciousKeywords |-> {}]]_vars

\* a second session was created between two messages of the first, the
\* later of them sent with a padded session id
C30_Witness ==
    /\ clock = 3
    /\ log # <<>>
    /\ log[1].sessionId = <<" ","s","1">>
    /\ DOMAIN SESSIONS = {<<"s","1">>, <<"s","2">>}
    /\ SESSIONS[<<"s","1">>].created_at = 1
    /\ SESSIONS[<<"s","1">>].last_activity = 3
    /\ SESSIONS[<<"s","1">>].turns = 2
    /\ SESSIONS[<<"s","2">>].created_at = 2

\* the replies of the reply-generation branch
GeneratedReplies ==
    {LLM_REPLY, LLM_ERROR_REPLY, LLM_BUSY_REPLY, GENERATION_ERROR_REPLY}

\* C31: a scam-flagged message of a completed session still adds 1 to
\* turns, applies the confidence decay and merges what it extracts, and is
\* answered by the reply-generation branch, which may select another
\* persona and log the change; it invokes no delivery confirmation and its
\* reply is no termination message.
C31_ReengagementAfterCompletion ==
    [][\A sid \in DOMAIN SESSIONS :
          (SESSIONS[sid].completed /\ Handles(sid) /\ detection'.is_scam) =>
              /\ SESSIONS'[sid].turns = SESSIONS[sid].turns + 1
              /\ SESSIONS'[sid].confidence \in
                    {update_confidence(SESSIONS[sid].confidence, detection'.flags,
                                       detection'.repetition, detection'.escalation,
                                       half_up) : half_up \in BOOLEAN}
              /\ SESSIONS'[sid].extracted =
                    merge_intelligence(SESSIONS[sid].extracted,
                        extract_all_intelligence(request'.text, detection'.flags))
              /\ generation'.called
              /\ generation'.persona = select_persona(SESSIONS'[sid].confidence,
                                                      SESSIONS[sid].current_persona)
              /\ ~generation'.raised =>
                    SESSIONS'[sid].current_persona = generation'.persona
              /\ response'.reply \in GeneratedReplies
              /\ response'.reply \notin ExitMessages
              /\ callbacks' = callbacks
              /\ SESSIONS'[sid].completed]_vars

\* two scam-flagged messages after the exit turn: the first selects the
\* first persona of the session, the second switches it, and the one
\* delivery confirmation still reports the turn count of the exit turn
C31_Witness ==
    \E sid \in DOMAIN SESSIONS :
        /\ SESSIONS[sid].completed
        /\ request.sessionId = sid
        /\ detection.is_scam
        /\ generation.called
        /\ response.reply \in GeneratedReplies
        /\ Len(callbacks) = 1
        /\ callbacks[1].payload.totalMessagesExchanged = 1
        /\ SESSIONS[sid].turns = 3
        /\ Len(SESSIONS[sid].persona_history) = 2
        /\ SESSIONS[sid].current_persona = "tech_savvy"

\* the handled requests of a session that were scam-flagged and carried
\* the flag
ScamTurnsWith(entries, sid, flag) ==
    {i \in 1..Len(entries) :
        /\ entries[i].sessionId = sid
        /\ entries[i].is_scam
        /\ HasFlag(entries[i].flags, flag)}

\* C32: the escalation analysis of a message reads the behaviour counters
\* as the earlier turns left them: the number of earlier scam-flagged turns
\* of the same session that carried urgency, and the number that carried
\* threat.  A turn is flagged repeated_pressure only if one of the two
\* numbers is at least 2; the current message's own flags, the flags of
\* messages passed through and the turns of other sessions do not count.
C32_EscalationFromEarlierTurns ==
    [][\A sid \in DOMAIN SESSIONS' :
          Handles(sid) =>
              LET u == Cardinality(ScamTurnsWith(log, sid, <<"urgency">>))
                  t == Cardinality(ScamTurnsWith(log, sid, <<"threat">>))
              IN  /\ detection'.escalation.urgency_count = u
                  /\ detection'.escalation.threat_count = t
                  /\ (u >= 2 \/ t >= 2) => detection'.escalation.is_escalating
                  /\ detection'.escalation.escalation_type = "repeated_pressure"
                        => (u >= 2 \/ t >= 2)
                  /\ HasFlag(detection'.flags, <<"escalation", "repeated_pressure">>)
                        => (u >= 2 \/ t >= 2)]_vars

\* the third urgent message of a session whose first was passed through:
\* one earlier scam-flagged turn carried urgency, so the message, urgent
\* itself, is not flagged as pressure
C32_Witness ==
    /\ Len(log) = 3
    /\ \A i \in 1..3 : log[i].sessionId = "s1"
    /\ \A i \in 1..3 : HasFlag(log[i].flags, <<"urgency">>)
    /\ ~log[1].is_scam
    /\ log[2].is_scam
    /\ log[3].is_scam
    /\ ~detection.escalation.is_escalating
    /\ SESSIONS["s1"].behavior_patterns.urgency = 2

\* persona identifiers that are not None: the four known ones, one that
\* PersonaType does not know, and the empty string
PersonaIdentifiers == PersonaTypes \cup {"friendly_helper", ""}

\* C33: the exit turn answers with the fixed exit message of the persona
\* that currentPersona held before the turn, whatever persona the turn's
\* own confidence would select; with no persona stored (null, which the
\* code does not tell from an empty identifier) the message is that of the
\* lowest band, and for an identifier that names no persona it is the fixed
\* fallback phrase; the exit turn leaves currentPersona and personaHistory
\* as they were.
C33_ExitMessageOfStoredPersona ==
    /\ [](/\ \A p \in PersonaTypes :
                /\ generate_exit_message(p, <<>>) = get_exit_message(p, <<>>)
                /\ \A q \in PersonaTypes \ {p} :
                      get_exit_message(p, <<>>) # get_exit_message(q, <<>>)
                /\ get_exit_message(p, <<>>) # EXIT_FALLBACK
          /\ \A p \in {None, ""} :
                generate_exit_message(p, <<>>) =
                    get_exit_message(PERSONAS[Len(PERSONAS)][1], <<>>)
          /\ \A p \in PersonaIdentifiers \ (PersonaTypes \cup {""}) :
                generate_exit_message(p, <<>>) = EXIT_FALLBACK)
    /\ [][\A sid \in DOMAIN SESSIONS' :
            (Handles(sid) /\ SESSIONS'[sid].completed /\ ~Before(sid).completed) =>
                /\ response'.reply =
                      (IF Before(sid).current_persona = None
                       THEN get_exit_message("tech_savvy", <<>>)
                       ELSE get_exit_message(Before(sid).current_persona, <<>>))
                /\ Before(sid).current_persona \in PersonaTypes \cup {None}
                /\ SESSIONS'[sid].current_persona = Before(sid).current_persona
                /\ SESSIONS'[sid].persona_history = Before(sid).persona_history]_vars

\* an exit turn whose confidence lies in the band of over_polite while the
\* session stores confused_user, selected on the turn before
C33_Witness ==
    \E sid \in DOMAIN SESSIONS :
        /\ request.sessionId = sid
        /\ SESSIONS[sid].completed
        /\ ~generation.called
        /\ Len(callbacks) = 1
        /\ callbacks[1].payload.totalMessagesExchanged = SESSIONS[sid].turns
        /\ SESSIONS[sid].current_persona = "confused_user"
        /\ select_persona(SESSIONS[sid].confidence, "confused_user") = "over_polite"
        /\ response.reply = get_exit_message("confused_user", <<>>)

\* the requests of a client that were let through to the handler in the
\* minute before second t: those less than 60 seconds old at t
LetThrough(entries, ip, t) ==
    {i \in 1..Len(entries) :
        /\ entries[i].client_ip = ip
        /\ entries[i].time <= t
        /\ t - entries[i].time < 60}

\* C34: of the requests of one client to a path other than the two health
\* paths, the limiter lets through at most requests_per_minute in any 60
\* seconds.  Such a request is refused with 429 exactly when
\* requests_per_minute requests of the client were let through less than
\* 60 seconds before it; a refused request reaches no handler, changes no
\* session and is not recorded, so it does not delay the next admission.
\* A health request is always let through and never recorded.
C34_RateLimit ==
    /\ [](\A i \in 1..Len(log) :
             Cardinality(LetThrough(log, log[i].client_ip, log[i].time))
                <= RequestsPerMinute)
    /\ [][(time' = time /\ vars' # vars) =>
            LET ip == http'.client_ip
                recent == Cardinality(LetThrough(log, ip, time))
            IN  IF http'.path \in HEALTH_PATHS
                THEN /\ http'.status_code = 200
                     /\ response' = HealthResponse
                     /\ UNCHANGED <<request_counts, log, SESSIONS, clock>>
                ELSE /\ http'.status_code = 429 <=> recent >= RequestsPerMinute
                     /\ Len(request_counts'[ip]) =
                           recent + (IF http'.status_code = 429 THEN 0 ELSE 1)
                     /\ \A other \in DOMAIN request_counts \ {ip} :
                           request_counts'[other] = request_counts[other]
                     /\ IF http'.status_code = 429
                        THEN /\ response' = RateLimitResponse
                             /\ UNCHANGED <<SESSIONS, clock, request, detection,
                                            exit_decision, generation, callbacks,
                                            log>>
                        ELSE /\ clock' = clock + 1
                             /\ response'.status = "success"
                             /\ log' = Append(log, [client_ip |-> ip,
                                                    time |-> time])]_vars

\* a client that has used its two requests in second 0 is let through
\* again in second 60, when they are 60 seconds old
C34_Witness ==
    /\ time = 60
    /\ http = [client_ip |-> "10.0.0.1", path |-> "/honeypot/message",
               status_code |-> 200]
    /\ log = << [client_ip |-> "10.0.0.1", time |-> 0],
                [client_ip |-> "10.0.0.1", time |-> 0],
                [client_ip |-> "10.0.0.1", time |-> 60] >>
    /\ request_counts["10.0.0.1"] = <<60>>
    /\ SESSIONS["s1"].last_activity = 3

\* a payment handle, a phone number or a link has been collected
HasCriticalIntel(session) ==
    session.extracted.upiIds \cup session.extracted.phoneNumbers
        \cup session.extracted.phishingLinks # {}

\* C35: between two requests, a session that is not completed has a
\* confidence above the exit threshold, fewer than 15 turns, and either
\* nothing of a payment handle, phone number or link collected or fewer
\* than 3 turns; and a scam-flagged turn at whose end an exit condition
\* holds leaves the session completed.
C35_OpenSessionBelowExitConditions ==
    /\ [](\A sid \in DOMAIN SESSIONS :
             ~SESSIONS[sid].completed =>
                 /\ SESSIONS[sid].confidence > 40
                 /\ SESSIONS[sid].turns < 15
                 /\ ~HasCriticalIntel(SESSIONS[sid]) \/ SESSIONS[sid].turns < 3)
    /\ [][\A sid \in DOMAIN SESSIONS' :
            (/\ Handles(sid)
             /\ detection'.is_scam
             /\ \/ SESSIONS'[sid].confidence <= 40
                \/ SESSIONS'[sid].turns >= 15
                \/ HasCriticalIntel(SESSIONS'[sid]) /\ SESSIONS'[sid].turns >= 3)
                => SESSIONS'[sid].completed]_vars

\* a session that collected a payment handle on its first turn is still
\* open after its second, one turn short of the intelligence condition
C35_Witness ==
    \E sid \in DOMAIN SESSIONS :
        /\ ~SESSIONS[sid].completed
        /\ SESSIONS[sid].turns = 2
        /\ SESSIONS[sid].extracted.upiIds # {}
        /\ SESSIONS[sid].confidence \in 41..99
        /\ exit_decision.evaluated
        /\ ~exit_decision.exit_needed
        /\ request.sessionId = sid

\* C36: with the default scam threshold, the flags of a scam-flagged
\* message always decay the confidence: the new confidence is at least
\* 0.07 below the old one, or 0.0 when the old one is below 0.07, so a
\* positive confidence never stays as it is.
C36_ScamTurnAlwaysDecays ==
    (fn_out.evaluated /\ ScamFlagged(fn_in)) =>
        /\ fn_out.decay >= 70
        /\ IF fn_in.old_confidence >= 7
           THEN fn_out.new_confidence <= fn_in.old_confidence - 7
           ELSE fn_out.new_confidence = 0
        /\ fn_in.old_confidence > 0 => fn_out.new_confidence < fn_in.old_confidence

\* the smallest decay of a scam-flagged message: one keyword flag and a
\* repetition at similarity 0.70
C36_Witness ==
    /\ fn_out.evaluated
    /\ Len(FlagsOf(fn_in)) = 2
    /\ fn_in.keywords = 1
    /\ fn_in.repetition_data.is_repetitive
    /\ fn_in.repetition_data.similarity = 70
    /\ fn_in.old_confidence = 50
    /\ fn_out.decay = 70
    /\ fn_out.new_confidence = 43

\* C37: with the default thresholds every session is completed no later
\* than its 9th scam-flagged turn: a session that is not completed has had
\* at most 8 of them, and its confidence is at most 1.00 less 0.07 for
\* each; so should_exit never gives the reason max_turns_reached, on any
\* turn up to the 16th.
C37_CompletedByNinthTurn ==
    /\ \A sid \in DOMAIN SESSIONS :
          /\ SESSIONS[sid].turns >= 9 => SESSIONS[sid].completed
          /\ ~SESSIONS[sid].completed => SESSIONS[sid].turns <= 8
          /\ SESSIONS[sid].confidence <= 100 - 7 * SESSIONS[sid].turns
             \/ SESSIONS[sid].confidence = 0
    /\ exit_decision.evaluated =>
          exit_decision.exit_reason # "max_turns_reached"

\* a session completed by its 9th scam-flagged turn and not before: nine
\* decays of 0.07 leave 0.37, so the 8th turn left 0.44, and nothing was
\* extracted
C37_Witness ==
    /\ SESSIONS["s1"].turns = 9
    /\ SESSIONS["s1"].completed
    /\ SESSIONS["s1"].confidence = 37
    /\ ~HasCriticalIntel(SESSIONS["s1"])
    /\ exit_decision.exit_needed
    /\ exit_decision.exit_reason = "confidence_threshold"

\* C38: with the default exit threshold a reply generated for a session
\* that is not completed has confidence above 0.4, its mode is not EXIT and
\* its persona is not tech_savvy; mode EXIT and persona tech_savvy occur
\* only on a scam-flagged turn of a completed session, and only a completed
\* session has tech_savvy as its current persona.
C38_OpenSessionNeverExitMode ==
    /\ (generation.called /\ ~SESSIONS[request.sessionId].completed) =>
          /\ SESSIONS[request.sessionId].confidence > 40
          /\ response.confidence > 40
          /\ generation.mode # "EXIT"
          /\ generation.persona # "tech_savvy"
    /\ (generation.called
        /\ (generation.mode = "EXIT" \/ generation.persona = "tech_savvy")) =>
          /\ SESSIONS[request.sessionId].completed
          /\ detection.is_scam
    /\ \A sid \in DOMAIN SESSIONS :
          SESSIONS[sid].current_persona = "tech_savvy" => SESSIONS[sid].completed

\* a reply of an open session just above the threshold: mode DEFLECTION,
\* persona over_polite
C38_Witness ==
    /\ generation.called
    /\ ~SESSIONS[request.sessionId].completed
    /\ SESSIONS[request.sessionId].confidence \in 41..49
    /\ generation.mode = "DEFLECTION"
    /\ generation.persona = "over_polite"
    /\ SESSIONS[request.sessionId].current_persona = "over_polite"

\* the extracted sets of a session id, empty before the session exists
ExtractedOf(sessions, sid) ==
    IF sid \in DOMAIN sessions THEN sessions[sid].extracted
    ELSE [upiIds |-> {}, phoneNumbers |-> {}, phishingLinks |-> {},
          suspiciousKeywords |-> {}]

\* C39: the four extracted sets of a session only grow from one handled
\* message to the next, and they change only on a scam-flagged message of
\* that session; what suspiciousKeywords gains are keywords of that
\* message's keyword flags, so it holds words of SCAM_KEYWORDS only.
C39_ExtractedSetsOnlyGrow ==
    /\ [][\A sid \in DOMAIN SESSIONS' :
            LET old == ExtractedOf(SESSIONS, sid)
                new == ExtractedOf(SESSIONS', sid)
            IN  /\ old.upiIds \subseteq new.upiIds
                /\ old.phoneNumbers \subseteq new.phoneNumbers
                /\ old.phishingLinks \subseteq new.phishingLinks
                /\ old.suspiciousKeywords \subseteq new.suspiciousKeywords
                /\ new # old =>
                      /\ request'.sessionId = sid
                      /\ detection'.is_scam
                /\ (new.suspiciousKeywords \ old.suspiciousKeywords) \subseteq
                      {detection'.flags[i][2] :
                          i \in {k \in 1..Len(detection'.flags) :
                                    detection'.flags[k][1] = "keyword"}}]_vars
    /\ [](\A sid \in DOMAIN SESSIONS :
            SESSIONS[sid].extracted.suspiciousKeywords \subseteq
                {SCAM_KEYWORDS[i] : i \in 1..Len(SCAM_KEYWORDS)})
    /\ [][DOMAIN SESSIONS \subseteq DOMAIN SESSIONS']_vars

\* a scam-flagged message handled for a session that still holds a keyword
\* and a payment handle of an earlier message, neither of them in this one
C39_Witness ==
    /\ request.sessionId \in DOMAIN SESSIONS
    /\ detection.is_scam
    /\ SESSIONS[request.sessionId].turns >= 2
    /\ \E kw \in SESSIONS[request.sessionId].extracted.suspiciousKeywords :
          kw \notin extract_suspicious_keywords(request.text, detection.flags)
    /\ SESSIONS[request.sessionId].extracted.upiIds # {}
    /\ extract_upi_ids(request.text) = {}

\* persona_history as a chain that ends in current_persona
ConsistentChain(session) ==
    LET h == session.persona_history
    IN  /\ \A i \in 1..Len(h) : h[i].from # h[i].to
        /\ \A i \in 2..Len(h) :
              /\ h[i].from = h[i - 1].to
              /\ h[i].turn >= h[i - 1].turn
              /\ h[i].confidence <= h[i - 1].confidence
        /\ IF h = <<>> THEN session.current_persona = None
           ELSE /\ h[Len(h)].to = session.current_persona
                /\ h[1].from = None

\* current_persona and persona_history of a session id, None and the empty
\* log before the session exists
PersonaOf(sessions, sid) ==
    IF sid \in DOMAIN sessions
    THEN <<sessions[sid].current_persona, sessions[sid].persona_history>>
    ELSE <<None, <<>> >>

\* C40 as stated: persona_history is a consistent chain, and a turn whose
\* reply generation fails, by a raised exception or by a failed model call,
\* leaves current_persona and persona_history unchanged.
C40_FailedGenerationKeepsPersona ==
    /\ [](\A sid \in DOMAIN SESSIONS : ConsistentChain(SESSIONS[sid]))
    /\ [][\A sid \in DOMAIN SESSIONS' :
            (request'.sessionId = sid /\ generation'.called
             /\ generation'.failed) =>
                PersonaOf(SESSIONS', sid) = PersonaOf(SESSIONS, sid)]_vars

\* C40: persona_history is a consistent chain in every reachable state
\* (from differs from to, from is the previous to, the last to is
\* current_persona, turns never decrease and confidences never increase
\* along the log); current_persona and persona_history change only on a
\* turn whose generate_reply call returned, so a turn on which it raised,
\* answered with the handler's fallback reply, leaves both unchanged; a
\* turn whose model call failed is tracked like any other: the session's
\* persona is the one generate_reply selected.
C40_PersonaHistoryChain ==
    /\ [](\A sid \in DOMAIN SESSIONS : ConsistentChain(SESSIONS[sid]))
    /\ [][\A sid \in DOMAIN SESSIONS' :
            /\ PersonaOf(SESSIONS', sid) # PersonaOf(SESSIONS, sid) =>
                  /\ request'.sessionId = sid
                  /\ generation'.called
                  /\ ~generation'.raised
                  /\ response'.reply # GENERATION_ERROR_REPLY
            /\ (request'.sessionId = sid /\ generation'.raised) =>
                  PersonaOf(SESSIONS', sid) = PersonaOf(SESSIONS, sid)
            /\ (request'.sessionId = sid /\ generation'.called
                /\ ~generation'.raised) =>
                  SESSIONS'[sid].current_persona = generation'.persona]_vars

\* a second record written on a turn whose model call failed: a later turn
\* than the first record's, at a lower confidence, answered with call_llm's
\* fallback text
C40_Witness ==
    /\ request.sessionId \in DOMAIN SESSIONS
    /\ generation.called
    /\ generation.failed
    /\ response.reply \in {LLM_ERROR_REPLY, LLM_BUSY_REPLY}
    /\ LET session == SESSIONS[request.sessionId]
           h == session.persona_history
       IN  /\ Len(h) >= 2
           /\ h[Len(h)].turn = session.turns
           /\ h[Len(h)].to = session.current_persona
           /\ h[2].turn > h[1].turn
           /\ h[2].confidence < h[1].confidence

====
